---- MODULE Spec2Model ----
(***************************************************************************)
(* Text encoding recovery of the PDF converter (src/app.py).               *)
(*                                                                         *)
(* A text is a sequence of Unicode code points, a byte string a sequence   *)
(* of integers 0..255.  A Python value of the variable `text` is a record  *)
(* [kind, val] with kind "str" or "bytes".  decode_indic_text is modelled  *)
(* statement block by statement block; pc is the position in the function. *)
(***************************************************************************)
EXTENDS Integers, Sequences, FiniteSets, TLC

(***************************************************************************)
(* Bounds of the checked inputs.                                           *)
(***************************************************************************)
\* an input text is the concatenation of at most MaxFragments fragments
MaxFragments == 3
\* a bytes argument has at most MaxByteLen bytes
MaxByteLen == 2

(***************************************************************************)
(* Generic sequence helpers (Python str / bytes primitives).               *)
(***************************************************************************)
\* s[i:] of Python, with a 1-based i
Drop(s, i) == SubSeq(s, i, Len(s))

\* s.startswith(sub, i-1)
MatchesAt(s, sub, i) ==
    /\ i + Len(sub) - 1 <= Len(s)
    /\ \A k \in 1..Len(sub) : s[i + k - 1] = sub[k]

\* `sub in s` for two str values
Contains(s, sub) == \E i \in 1..(Len(s) + 1) : MatchesAt(s, sub, i)

RECURSIVE ReplaceFrom(_, _, _, _)
ReplaceFrom(s, old, new, i) ==
    IF i > Len(s) THEN <<>>
    ELSE IF MatchesAt(s, old, i)
         THEN new \o ReplaceFrom(s, old, new, i + Len(old))
         ELSE <<s[i]>> \o ReplaceFrom(s, old, new, i + 1)

\* str.replace(old, new) for a non-empty old: leftmost non-overlapping
\* occurrences, found in one scan
Replace(s, old, new) == ReplaceFrom(s, old, new, 1)

(***************************************************************************)
(* str.isprintable per character.  The ranges are the code points of the   *)
(* Unicode pages the modelled codecs can produce that Python classifies as *)
(* "Other" or "Separator" (the ASCII space excepted).                      *)
(***************************************************************************)
NonPrintableRanges ==
    { <<0, 31>>, <<127, 160>>, <<173, 173>>, <<888, 889>>, <<896, 899>>, <<907, 907>>,
      <<909, 909>>, <<930, 930>>, <<2436, 2436>>, <<2445, 2446>>, <<2449, 2450>>, <<2473, 2473>>,
      <<2481, 2481>>, <<2483, 2485>>, <<2490, 2491>>, <<2501, 2502>>, <<2505, 2506>>, <<2511, 2518>>,
      <<2520, 2523>>, <<2526, 2526>>, <<2532, 2533>>, <<2559, 2559>>, <<2560, 2560>>, <<2564, 2564>>,
      <<2571, 2574>>, <<2577, 2578>>, <<2601, 2601>>, <<2609, 2609>>, <<2612, 2612>>, <<2615, 2615>>,
      <<2618, 2619>>, <<2621, 2621>>, <<2627, 2630>>, <<2633, 2634>>, <<2638, 2640>>, <<2642, 2648>>,
      <<2653, 2653>>, <<2655, 2661>>, <<2679, 2688>>, <<2692, 2692>>, <<2702, 2702>>, <<2706, 2706>>,
      <<2729, 2729>>, <<2737, 2737>>, <<2740, 2740>>, <<2746, 2747>>, <<2758, 2758>>, <<2762, 2762>>,
      <<2766, 2767>>, <<2769, 2783>>, <<2788, 2789>>, <<2802, 2808>>, <<8192, 8207>>, <<8232, 8239>>,
      <<8287, 8303>>, <<8306, 8307>>, <<8335, 8335>>, <<8349, 8351>>, <<8385, 8399>>, <<8433, 8447>>,
      <<8588, 8591>>, <<42125, 42127>>, <<42183, 42191>>, <<55296, 57343>>, <<57344, 63743>>, <<64263, 64274>>,
      <<64280, 64284>>, <<64311, 64311>>, <<64317, 64317>>, <<64319, 64319>>, <<64322, 64322>>, <<64325, 64325>>,
      <<64451, 64466>>, <<65280, 65280>>, <<65471, 65473>>, <<65480, 65481>>, <<65488, 65489>>, <<65496, 65497>>,
      <<65501, 65503>>, <<65511, 65511>>, <<65519, 65531>>, <<65534, 65535>> }

NonPrintable == UNION { r[1]..r[2] : r \in NonPrintableRanges }

IsPrintable(c) == c \notin NonPrintable

RECURSIVE CountPrintable(_)
CountPrintable(s) ==
    IF s = <<>> THEN 0
    ELSE (IF IsPrintable(Head(s)) THEN 1 ELSE 0) + CountPrintable(Tail(s))

\* the acceptance threshold 0.8 of the printable-character ratio, in percent
PrintableThreshold == 80

\* the ratio test with "at least" in the place of "above"
RatioAccepted_AtLeast(decoded) ==
    100 * CountPrintable(decoded) >= PrintableThreshold * Len(decoded)

\* sum(c.isprintable() for c in decoded) / len(decoded) > 0.8
\* (only evaluated for a non-empty decoded; the empty case divides by zero)
RatioAccepted(decoded) ==
    100 * CountPrintable(decoded) > PrintableThreshold * Len(decoded)

(***************************************************************************)
(* Codecs.  A decode yields [ok, val]; ok = FALSE stands for the raised    *)
(* UnicodeDecodeError / LookupError.                                       *)
(***************************************************************************)
Failed == [ok |-> FALSE, val |-> <<>>]
Decoded(s) == [ok |-> TRUE, val |-> s]

IsSurrogate(c) == c >= 55296 /\ c <= 57343

\* one code point as UTF-8; a lone surrogate cannot be encoded
Utf8EncodeChar(c) ==
    IF c < 128 THEN <<c>>
    ELSE IF c < 2048 THEN <<192 + (c \div 64), 128 + (c % 64)>>
    ELSE IF c < 65536
         THEN <<224 + (c \div 4096), 128 + ((c \div 64) % 64), 128 + (c % 64)>>
         ELSE <<240 + (c \div 262144), 128 + ((c \div 4096) % 64),
                128 + ((c \div 64) % 64), 128 + (c % 64)>>

RECURSIVE Utf8EncodeIgnore(_)
\* str.encode('utf-8', errors='ignore')
Utf8EncodeIgnore(s) ==
    IF s = <<>> THEN <<>>
    ELSE (IF IsSurrogate(Head(s)) THEN <<>> ELSE Utf8EncodeChar(Head(s)))
         \o Utf8EncodeIgnore(Tail(s))

IsCont(b, i) == i <= Len(b) /\ b[i] >= 128 /\ b[i] <= 191

\* length of the well-formed UTF-8 sequence starting at b[i], 0 if none
Utf8SeqLen(b, i) ==
    LET c == b[i] IN
    IF c < 128 THEN 1
    ELSE IF c >= 194 /\ c <= 223 THEN (IF IsCont(b, i + 1) THEN 2 ELSE 0)
    ELSE IF c >= 224 /\ c <= 239
         THEN (IF /\ IsCont(b, i + 1) /\ IsCont(b, i + 2)
                  /\ (c = 224 => b[i + 1] >= 160)
                  /\ (c = 237 => b[i + 1] <= 159)
               THEN 3 ELSE 0)
    ELSE IF c >= 240 /\ c <= 244
         THEN (IF /\ IsCont(b, i + 1) /\ IsCont(b, i + 2) /\ IsCont(b, i + 3)
                  /\ (c = 240 => b[i + 1] >= 144)
                  /\ (c = 244 => b[i + 1] <= 143)
               THEN 4 ELSE 0)
    ELSE 0

Utf8CodePoint(b, i, n) ==
    IF n = 1 THEN b[i]
    ELSE IF n = 2 THEN (b[i] - 192) * 64 + (b[i + 1] - 128)
    ELSE IF n = 3
         THEN (b[i] - 224) * 4096 + (b[i + 1] - 128) * 64 + (b[i + 2] - 128)
         ELSE (b[i] - 240) * 262144 + (b[i + 1] - 128) * 4096
              + (b[i + 2] - 128) * 64 + (b[i + 3] - 128)

RECURSIVE Utf8DecodeFrom(_, _, _)
\* replace = TRUE is errors='replace': an undecodable byte becomes U+FFFD
Utf8DecodeFrom(b, i, replace) ==
    IF i > Len(b) THEN Decoded(<<>>)
    ELSE LET n == Utf8SeqLen(b, i) IN
         IF n = 0
         THEN IF replace
              THEN Decoded(<<65533>> \o Utf8DecodeFrom(b, i + 1, replace).val)
              ELSE Failed
         ELSE LET rest == Utf8DecodeFrom(b, i + n, replace) IN
              IF rest.ok THEN Decoded(<<Utf8CodePoint(b, i, n)>> \o rest.val)
              ELSE Failed

Utf8Decode(b) == Utf8DecodeFrom(b, 1, FALSE)

\* bytes.decode('utf-8', errors='replace')
Utf8DecodeReplace(b) == Utf8DecodeFrom(b, 1, TRUE).val

RECURSIVE Utf16Units(_, _, _)
\* the code units of b from position i on; big = TRUE is big-endian
Utf16Units(b, i, big) ==
    IF i > Len(b) THEN <<>>
    ELSE <<IF big THEN 256 * b[i] + b[i + 1] ELSE b[i] + 256 * b[i + 1]>>
         \o Utf16Units(b, i + 2, big)

RECURSIVE Utf16Join(_)
\* surrogate pairs joined; a lone surrogate is a decoding error
Utf16Join(u) ==
    IF u = <<>> THEN Decoded(<<>>)
    ELSE IF ~IsSurrogate(u[1])
         THEN LET rest == Utf16Join(Tail(u)) IN
              IF rest.ok THEN Decoded(<<u[1]>> \o rest.val) ELSE Failed
    ELSE IF u[1] <= 56319 /\ Len(u) >= 2 /\ u[2] >= 56320 /\ u[2] <= 57343
         THEN LET rest == Utf16Join(Drop(u, 3)) IN
              IF rest.ok
              THEN Decoded(<<65536 + (u[1] - 55296) * 1024 + (u[2] - 56320)>>
                           \o rest.val)
              ELSE Failed
    ELSE Failed

\* bytes.decode('utf-16'): a byte order mark selects the byte order and is
\* dropped, without one the order is the platform's (little-endian here); an
\* odd trailing byte is a decoding error
Utf16Decode(b) ==
    LET bomLE == Len(b) >= 2 /\ b[1] = 255 /\ b[2] = 254
        bomBE == Len(b) >= 2 /\ b[1] = 254 /\ b[2] = 255
        from  == IF bomLE \/ bomBE THEN 3 ELSE 1
    IN  IF Len(b) % 2 # 0 THEN Failed
        ELSE Utf16Join(Utf16Units(b, from, bomBE))

RECURSIVE Utf32From(_, _, _)
\* a unit whose most significant byte is not 0 is above U+10FFFF
Utf32From(b, i, big) ==
    IF i > Len(b) THEN Decoded(<<>>)
    ELSE LET top == IF big THEN b[i] ELSE b[i + 3]
             c == IF big
                  THEN 65536 * b[i + 1] + 256 * b[i + 2] + b[i + 3]
                  ELSE b[i] + 256 * b[i + 1] + 65536 * b[i + 2]
             rest == Utf32From(b, i + 4, big)
         IN  IF top # 0 \/ c > 1114111 \/ IsSurrogate(c) \/ ~rest.ok THEN Failed
             ELSE Decoded(<<c>> \o rest.val)

\* bytes.decode('utf-32')
Utf32Decode(b) ==
    LET bomLE == Len(b) >= 4 /\ SubSeq(b, 1, 4) = <<255, 254, 0, 0>>
        bomBE == Len(b) >= 4 /\ SubSeq(b, 1, 4) = <<0, 0, 254, 255>>
        from  == IF bomLE \/ bomBE THEN 5 ELSE 1
    IN  IF Len(b) % 4 # 0 THEN Failed
        ELSE Utf32From(b, from, bomBE)

\* cp1252 for the bytes 128..159 (-1: undefined); every other byte decodes
\* to the code point of the same number
cp1252_high ==
    << 8364, -1, 8218, 402, 8222, 8230, 8224, 8225, 710, 8240, 352, 8249,
       338, -1, 381, -1, -1, 8216, 8217, 8220, 8221, 8226, 8211, 8212,
       732, 8482, 353, 8250, 339, -1, 382, 376 >>

\* iso-8859-15 differs from iso-8859-1 in eight bytes
iso8859_15_diff ==
    << <<164, 8364>>, <<166, 352>>, <<168, 353>>, <<180, 381>>,
       <<184, 382>>, <<188, 338>>, <<189, 339>>, <<190, 376>> >>

\* mac_roman for the bytes 128..255
mac_roman_high ==
    << 196, 197, 199, 201, 209, 214, 220, 225, 224, 226, 228, 227,
       229, 231, 233, 232, 234, 235, 237, 236, 238, 239, 241, 243,
       242, 244, 246, 245, 250, 249, 251, 252, 8224, 176, 162, 163,
       167, 8226, 182, 223, 174, 169, 8482, 180, 168, 8800, 198, 216,
       8734, 177, 8804, 8805, 165, 181, 8706, 8721, 8719, 960, 8747, 170,
       186, 937, 230, 248, 191, 161, 172, 8730, 402, 8776, 8710, 171,
       187, 8230, 160, 192, 195, 213, 338, 339, 8211, 8212, 8220, 8221,
       8216, 8217, 247, 9674, 255, 376, 8260, 8364, 8249, 8250, 64257, 64258,
       8225, 183, 8218, 8222, 8240, 194, 202, 193, 203, 200, 205, 206,
       207, 204, 211, 212, 63743, 210, 218, 219, 217, 305, 710, 732,
       175, 728, 729, 730, 184, 733, 731, 711 >>

\* one byte under a single-byte codec, -1 if the codec has no such byte
DecodeByte(enc, c) ==
    IF enc = "ascii" THEN (IF c < 128 THEN c ELSE -1)
    ELSE IF enc = "cp1252"
         THEN (IF c >= 128 /\ c <= 159 THEN cp1252_high[c - 127] ELSE c)
    ELSE IF enc = "iso-8859-15"
         THEN (IF \E k \in 1..Len(iso8859_15_diff) : iso8859_15_diff[k][1] = c
               THEN (CHOOSE p \in {iso8859_15_diff[k] : k \in 1..Len(iso8859_15_diff)} :
                        p[1] = c)[2]
               ELSE c)
    ELSE IF enc = "mac_roman"
         THEN (IF c >= 128 THEN mac_roman_high[c - 127] ELSE c)
    ELSE c  \* iso-8859-1

RECURSIVE SingleByteDecode(_, _)
SingleByteDecode(enc, b) ==
    IF b = <<>> THEN Decoded(<<>>)
    ELSE LET c == DecodeByte(enc, Head(b))
             rest == SingleByteDecode(enc, Tail(b))
         IN  IF c = -1 \/ ~rest.ok THEN Failed ELSE Decoded(<<c>> \o rest.val)

\* the codec a name is registered for (codec aliases of Python)
CodecOf(name) ==
    CASE name \in {"iso-8859-1", "latin1", "latin_1"} -> "iso-8859-1"
      [] name \in {"cp1252", "windows-1252"}          -> "cp1252"
      [] OTHER                                        -> name

\* bytes.decode(name) with the default strict error handling; a name no
\* codec is registered for raises LookupError
Decode(name, b) ==
    LET codec == CodecOf(name) IN
    CASE codec = "utf-8"  -> Utf8Decode(b)
      [] codec = "utf-16" -> Utf16Decode(b)
      [] codec = "utf-32" -> Utf32Decode(b)
      [] codec \in {"iso-8859-1", "cp1252", "ascii", "iso-8859-15", "mac_roman"}
                          -> SingleByteDecode(codec, b)
      [] OTHER            -> Failed

(***************************************************************************)
(* decode_indic_text: the tables.                                          *)
(***************************************************************************)
\* the dict literal `replacements` as written, <<old, new>> per line; eight
\* keys are written twice
replacements_literal ==
    << <<<<40, 82, 41>>, <<2352>>>>, <<<<43, 47, 45>>, <<2354>>>>, <<<<201>>, <<2366>>>>, <<<<232>>, <<2376>>>>,
       <<<<250>>, <<2352>>>>, <<<<249>>, <<2342>>>>, <<<<254>>, <<2361>>>>, <<<<242>>, <<2325>>>>,
       <<<<228>>, <<2375>>>>, <<<<230>>, <<2379>>>>, <<<<206>>, <<2367>>>>, <<<<245>>, <<2335>>>>,
       <<<<168>>, <<2350>>>>, <<<<189>>, <<2361>>>>, <<<<202>>, <<2367>>>>, <<<<186>>, <<2360>>>>,
       <<<<198>>, <<2306>>>>, <<<<199>>, <<2330>>>>, <<<<170>>, <<2351>>>>, <<<<166>>, <<2349>>>>,
       <<<<80>>, <<2358>>>>, <<<<255>>, <<2361>>>>, <<<<210>>, <<2368>>>>, <<<<211>>, <<2368>>>>,
       <<<<212>>, <<2368>>>>, <<<<213>>, <<2368>>>>, <<<<214>>, <<2368>>>>, <<<<215>>, <<2368>>>>,
       <<<<216>>, <<2368>>>>, <<<<217>>, <<2368>>>>, <<<<218>>, <<2368>>>>, <<<<219>>, <<2368>>>>,
       <<<<220>>, <<2368>>>>, <<<<221>>, <<2368>>>>, <<<<222>>, <<2368>>>>, <<<<223>>, <<2368>>>>,
       <<<<224>>, <<2368>>>>, <<<<225>>, <<2368>>>>, <<<<226>>, <<2368>>>>, <<<<227>>, <<2368>>>>,
       <<<<228>>, <<2375>>>>, <<<<229>>, <<2375>>>>, <<<<230>>, <<2379>>>>, <<<<231>>, <<2379>>>>,
       <<<<232>>, <<2376>>>>, <<<<233>>, <<2376>>>>, <<<<234>>, <<2376>>>>, <<<<235>>, <<2376>>>>,
       <<<<236>>, <<2376>>>>, <<<<237>>, <<2376>>>>, <<<<238>>, <<2376>>>>, <<<<239>>, <<2376>>>>,
       <<<<240>>, <<2376>>>>, <<<<241>>, <<2376>>>>, <<<<242>>, <<2325>>>>, <<<<243>>, <<2325>>>>,
       <<<<244>>, <<2325>>>>, <<<<245>>, <<2335>>>>, <<<<246>>, <<2335>>>>, <<<<247>>, <<2335>>>>,
       <<<<248>>, <<2335>>>>, <<<<249>>, <<2342>>>>, <<<<250>>, <<2352>>>>, <<<<251>>, <<2352>>>>,
       <<<<252>>, <<2352>>>>, <<<<253>>, <<2352>>>>, <<<<254>>, <<2361>>>>, <<<<255>>, <<2361>>>> >>

RECURSIVE DictFrom(_, _)
\* the items of the dict a literal builds, in iteration order: a key written
\* again keeps the position of its first occurrence and takes the last value
DictFrom(lit, i) ==
    IF i > Len(lit) THEN <<>>
    ELSE IF \E j \in 1..(i - 1) : lit[j][1] = lit[i][1]
         THEN DictFrom(lit, i + 1)
         ELSE LET last == CHOOSE j \in i..Len(lit) :
                              /\ lit[j][1] = lit[i][1]
                              /\ \A h \in (j + 1)..Len(lit) : lit[h][1] # lit[i][1]
              IN  <<<<lit[i][1], lit[last][2]>>>> \o DictFrom(lit, i + 1)

\* the table with É mapped to P, a key that a later pass replaces again
replacements_chained ==
    [DictFrom(replacements_literal, 1) EXCEPT ![3] = <<<<201>>, <<80>>>>]

\* the table with P mapped to the marker É, whose pass has already run
replacements_reintroduces_marker ==
    [DictFrom(replacements_literal, 1) EXCEPT ![21] = <<<<80>>, <<201>>>>]

\* replacements.items()
replacements == DictFrom(replacements_literal, 1)

\* the list indic_markers: É ú ù þ ò ä æ Î õ
indic_markers == <<201, 250, 249, 254, 242, 228, 230, 206, 245>>

\* the list with its first two entries exchanged
encodings_to_try_utf16_first ==
    << "utf-16", "utf-8", "utf-32", "iso-8859-1", "cp1252", "ascii",
       "latin1", "latin_1", "iso-8859-15", "windows-1252", "mac_roman" >>

encodings_to_try ==
    << "utf-8", "utf-16", "utf-32", "iso-8859-1", "cp1252", "ascii",
       "latin1", "latin_1", "iso-8859-15", "windows-1252", "mac_roman" >>

\* the test taking any key of the table for a marker
is_indic_of_any_key(s) ==
    \E k \in 1..Len(replacements) : Contains(s, replacements[k][1])

\* is_indic = any(marker in text for marker in indic_markers)
is_indic_of(s) ==
    \E k \in 1..Len(indic_markers) : Contains(s, <<indic_markers[k]>>)

RECURSIVE ApplyFrom(_, _)
\* (nothing is left to replace in an empty text)
ApplyFrom(s, k) ==
    IF s = <<>> \/ k > Len(replacements) THEN s
    ELSE ApplyFrom(Replace(s, replacements[k][1], replacements[k][2]), k + 1)

\* for old, new in replacements.items(): text = text.replace(old, new)
ApplyReplacements(s) == ApplyFrom(s, 1)

\* lines 864-869 as one function of the text: the repair stage
Repair(s) == IF is_indic_of(s) THEN ApplyReplacements(s) ELSE s

\* the name resolving to a registered single-byte codec
IsciiDecode_Latin1(b) == Decode("iso-8859-1", b)

\* text.decode('iscii', errors='replace'): Python registers no codec of this
\* name, the lookup raises LookupError for every argument
IsciiDecode(b) == Decode("iscii", b)

(***************************************************************************)
(* The inputs.                                                             *)
(***************************************************************************)
\* a, newline, P (a table key), É (marker and key), U+0081 (a control
\* character with a two-byte UTF-8 form), and the three-character key (R)
Fragments == { <<97>>, <<10>>, <<80>>, <<201>>, <<129>>, <<40, 82, 41>> }

RECURSIVE Concats(_)
Concats(n) ==
    IF n = 0 THEN { <<>> }
    ELSE LET prev == Concats(n - 1)
         IN  prev \cup { p \o f : p \in prev, f \in Fragments }

StrInputs == { [kind |-> "str", val |-> s] : s \in Concats(MaxFragments) }

ByteSamples == {97, 201}

BytesInputs ==
    { [kind |-> "bytes", val |-> b] :
        b \in UNION { [1..n -> ByteSamples] : n \in 0..MaxByteLen } }

\* chardet.detect is an external collaborator: any guess, any confidence (in
\* percent), except that an empty buffer yields no guess with confidence 0
ProberEncodings == {"ascii", "utf-8", "windows-1252"}
Confidences == {80, 99}
\* the confidence above which the prober's guess is trusted, in percent
ConfidenceThreshold == 80

\* the trust test with "at least" in the place of "above"
Trusted_AtLeast(d) == d.confidence >= ConfidenceThreshold

\* detected['confidence'] > 0.8
Trusted(d) == d.confidence > ConfidenceThreshold

ProberOutcomes(b) ==
    IF b = <<>> THEN { [encoding |-> "None", confidence |-> 0] }
    ELSE [encoding : ProberEncodings, confidence : Confidences]

NoGuess == [encoding |-> "None", confidence |-> 0]

(***************************************************************************)
(* decode_indic_text as a state machine.                                   *)
(***************************************************************************)
VARIABLES
    input,     \* the argument of the call
    text,      \* the local variable text
    pc,        \* position in the function
    is_indic,  \* the local variable is_indic
    repaired,  \* text as it leaves the replacement block (lines 866-869)
    detected,  \* the local variable detected
    idx,       \* position of the loop over encodings_to_try
    result,    \* the returned string
    via,       \* which return statement returned
    raised     \* the exception that left the function, "none" if none

decodeVars == <<input, text, pc, is_indic, repaired, detected, idx, result, via, raised>>

(***************************************************************************)
(* normalize_text as a state machine; the second call of                   *)
(* normalize_text(normalize_text(x)) runs on what the first returned.      *)
(***************************************************************************)
VARIABLES
    n_input,   \* the argument of the first call
    n_text,    \* the local variable text of normalize_text
    n_pc,      \* position in normalize_text
    n_k,       \* which str.replace of lines 931-938 is next
    n_out      \* the strings returned so far, one per completed call

normVars == <<n_input, n_text, n_pc, n_k, n_out>>

NormIdle ==
    /\ n_input = <<>>
    /\ n_text = <<>>
    /\ n_pc = "idle"
    /\ n_k = 0
    /\ n_out = <<>>

(***************************************************************************)
(* ContentExporters.clean_text of whitepaper/exporters.py as a state       *)
(* machine.                                                                *)
(***************************************************************************)
VARIABLES
    c_input,   \* the argument of the call, a str or a bytes object
    c_text,    \* the local variable text, a str once line 15 has run
    c_pc,      \* position in clean_text
    c_k,       \* position of the loop over replacements.items()
    c_out      \* the returned string

cleanVars == <<c_input, c_text, c_pc, c_k, c_out>>

CleanIdle ==
    /\ c_input = [kind |-> "str", val |-> <<>>]
    /\ c_text = <<>>
    /\ c_pc = "idle"
    /\ c_k = 0
    /\ c_out = <<>>

(***************************************************************************)
(* The four exporters: ContentExporters.export_as_pdf and export_as_html   *)
(* of whitepaper/exporters.py and of app.py.                               *)
(***************************************************************************)
VARIABLES
    x_content,   \* the argument content of the call
    x_exporter,  \* the exporter that was called, "none" before the call
    x_rendered,  \* the texts handed to the renderer, in the order handed
    x_result,    \* "path", "None" or "raised", "none" before the call
    x_raised     \* the lines whose cleaning or rendering raised, by position

exportVars == <<x_content, x_exporter, x_rendered, x_result, x_raised>>

ExportIdle ==
    /\ x_content = <<>>
    /\ x_exporter = "idle"
    /\ x_rendered = <<>>
    /\ x_result = "none"
    /\ x_raised = {}

(***************************************************************************)
(* The document pipeline of research_converter_page (src/app.py lines      *)
(* 1024-1059): the loop over the pages, the session state, the translation.*)
(***************************************************************************)
VARIABLES
    pages,           \* what extract_text() returns for each page, in order
    translate,       \* the "Translate to English" checkbox
    page_i,          \* the number of pages the loop has been through
    raw_text,        \* the local variable raw_text
    processed_text,  \* the local variable processed_text
    response,        \* what the language model answered to generate_content
    session,         \* st.session_state: raw_text, processed_text,
                     \* translated_text, search_tool (the text it closes over)
    pipe_pc          \* position in the pipeline

pipeVars ==
    <<pages, translate, page_i, raw_text, processed_text, response, session,
      pipe_pc>>

\* a session key that was not assigned
Unset == [set |-> FALSE, val |-> <<>>]

\* the model has not been called
NoCall == [called |-> FALSE, ok |-> FALSE, text |-> <<>>]

EmptySession ==
    [raw_text |-> Unset, processed_text |-> Unset, translated_text |-> Unset,
     search_tool |-> Unset]

PipeIdle ==
    /\ pages = <<>>
    /\ translate = FALSE
    /\ page_i = 0
    /\ raw_text = <<>>
    /\ processed_text = <<>>
    /\ response = NoCall
    /\ session = EmptySession
    /\ pipe_pc = "idle"

(***************************************************************************)
(* The four stages applied to one text: decode_indic_text, its repair      *)
(* block, normalize_text and clean_text of whitepaper/exporters.py.        *)
(***************************************************************************)
VARIABLES
    st_input,       \* the text handed to each stage
    st_pc,          \* the stage that runs next
    st_decoded,     \* what decode_indic_text returned
    st_repaired,    \* the text as the repair block leaves it
    st_normalized,  \* what normalize_text returned
    st_sanitized    \* what clean_text returned

stageVars ==
    <<st_input, st_pc, st_decoded, st_repaired, st_normalized, st_sanitized>>

StageIdle ==
    /\ st_input = <<>>
    /\ st_pc = "idle"
    /\ st_decoded = <<>>
    /\ st_repaired = <<>>
    /\ st_normalized = <<>>
    /\ st_sanitized = <<>>

(***************************************************************************)
(* The PDF search tool of whitepaper/tools.py: create_pdf_search_tool and  *)
(* the closure search it returns.                                          *)
(***************************************************************************)
VARIABLES
    loaded_pages,  \* page_content of the pages PyPDFLoader loaded, in order
    full_text,     \* the page-marked text of the document
    page_texts,    \* the dict page number -> text, as <<number, text>> pairs
                   \* in insertion order
    query,         \* the argument of search
    search_pc,     \* position in create_pdf_search_tool and search
    page_k,        \* position of the loop over page_texts.items()
    results,       \* the local variable results of search
    chain_calls,   \* the calls of chain.run so far: query, context, answer
    search_result  \* what search returned

searchVars ==
    <<loaded_pages, full_text, page_texts, query, search_pc, page_k, results,
      chain_calls, search_result>>

SearchIdle ==
    /\ loaded_pages = <<>>
    /\ full_text = <<>>
    /\ page_texts = <<>>
    /\ query = <<>>
    /\ search_pc = "idle"
    /\ page_k = 0
    /\ results = <<>>
    /\ chain_calls = <<>>
    /\ search_result = <<>>

(***************************************************************************)
(* The generic text cleaner, ContentExporters.clean_text of app.py, called *)
(* on a text and on its own result.                                        *)
(***************************************************************************)
VARIABLES
    g_input,  \* the text given to clean_text
    g_pc,     \* "first", "second" or "done"
    g_once,   \* clean_text(g_input)
    g_twice   \* clean_text(clean_text(g_input))

genericVars == <<g_input, g_pc, g_once, g_twice>>

GenericIdle ==
    /\ g_input = <<>>
    /\ g_pc = "idle"
    /\ g_once = <<>>
    /\ g_twice = <<>>

(***************************************************************************)
(* The encoding detector of whitepaper/encoding_detector.py:               *)
(* extract_text_from_pdf followed by process_for_research.                 *)
(***************************************************************************)
VARIABLES
    d_pages,          \* what extract_text gives for each page of the PDF
    d_page_k,         \* pages the loop of extract_text_from_pdf has visited
    d_text_chunks,    \* the list text_chunks
    d_encodings,      \* the list encodings
    d_pc,             \* "extract", "process" or "done"
    d_i,              \* chunks the loop of process_for_research has visited
    d_processed_text  \* the local variable processed_text

detectorVars ==
    <<d_pages, d_page_k, d_text_chunks, d_encodings, d_pc, d_i,
      d_processed_text>>

DetectorIdle ==
    /\ d_pages = <<>>
    /\ d_page_k = 0
    /\ d_text_chunks = <<>>
    /\ d_encodings = <<>>
    /\ d_pc = "idle"
    /\ d_i = 0
    /\ d_processed_text = <<>>

(***************************************************************************)
(* The conversion: ResearchConverter.process_pdf of whitepaper/main.py and *)
(* the 'Process PDF' handlers of app.py and whitepaper/app.py, which keep  *)
(* the generated paths in st.session_state.current_outputs.                *)
(***************************************************************************)
VARIABLES
    current_outputs,  \* st.session_state.current_outputs
    unique_id,        \* int(time.time()) of the last conversion, 0 before
    pdf_run,          \* the last call of process_pdf: arguments, steps, result
    handler_run       \* the last run of a 'Process PDF' handler

convertVars == <<current_outputs, unique_id, pdf_run, handler_run>>

\* the session value None
NoOutputs == [none |-> TRUE, paths |-> <<>>]

NoPdfRun ==
    [called |-> FALSE, brand_guidelines |-> FALSE, output_format |-> "",
     steps |-> <<>>, raised |-> FALSE, pdf_export |-> "not called",
     html_export |-> "not called", outputs |-> <<>>]

NoHandlerRun == [handler |-> "none", outcome |-> "", outputs |-> <<>>]

ConvertIdle ==
    /\ current_outputs = NoOutputs
    /\ unique_id = 0
    /\ pdf_run = NoPdfRun
    /\ handler_run = NoHandlerRun

vars ==
    <<decodeVars, normVars, cleanVars, exportVars, pipeVars, stageVars,
      searchVars, genericVars, detectorVars, convertVars>>

\* what decode_indic_text leaves alone
otherThanDecode ==
    <<normVars, cleanVars, exportVars, pipeVars, stageVars, searchVars,
      genericVars, detectorVars, convertVars>>

\* what normalize_text leaves alone
otherThanNormalize ==
    <<decodeVars, cleanVars, exportVars, pipeVars, stageVars, searchVars,
      genericVars, detectorVars, convertVars>>

\* what clean_text leaves alone
otherThanClean ==
    <<decodeVars, normVars, exportVars, pipeVars, stageVars, searchVars,
      genericVars, detectorVars, convertVars>>

\* what the exporters leave alone
otherThanExport ==
    <<decodeVars, normVars, cleanVars, pipeVars, stageVars, searchVars,
      genericVars, detectorVars, convertVars>>

\* what the document pipeline leaves alone
otherThanPipeline ==
    <<decodeVars, normVars, cleanVars, exportVars, stageVars, searchVars,
      genericVars, detectorVars, convertVars>>

\* what the run of the four stages leaves alone
otherThanStages ==
    <<decodeVars, normVars, cleanVars, exportVars, pipeVars, searchVars,
      genericVars, detectorVars, convertVars>>

\* what the PDF search tool leaves alone
otherThanSearch ==
    <<decodeVars, normVars, cleanVars, exportVars, pipeVars, stageVars,
      genericVars, detectorVars, convertVars>>

\* everything but the variables of the generic cleaner
otherThanGeneric ==
    <<decodeVars, normVars, cleanVars, exportVars, pipeVars, stageVars,
      searchVars, detectorVars, convertVars>>

\* everything but the variables of the encoding detector
otherThanDetector ==
    <<decodeVars, normVars, cleanVars, exportVars, pipeVars, stageVars,
      searchVars, genericVars, convertVars>>

\* everything but the variables of the conversion
otherThanConvert ==
    <<decodeVars, normVars, cleanVars, exportVars, pipeVars, stageVars,
      searchVars, genericVars, detectorVars>>

DecodeIdle ==
    /\ input = [kind |-> "str", val |-> <<>>]
    /\ text = input
    /\ pc = "idle"
    /\ is_indic = FALSE
    /\ repaired = <<>>
    /\ detected = NoGuess
    /\ idx = 0
    /\ result = <<>>
    /\ via = "none"
    /\ raised = "none"

Init ==
    /\ input \in StrInputs \cup BytesInputs
    /\ text = input
    /\ pc = "start"
    /\ is_indic = FALSE
    /\ repaired = <<>>
    /\ detected = NoGuess
    /\ idx = 0
    /\ result = <<>>
    /\ via = "none"
    /\ raised = "none"
    /\ NormIdle
    /\ CleanIdle
    /\ ExportIdle
    /\ PipeIdle
    /\ StageIdle
    /\ SearchIdle
    /\ GenericIdle
    /\ DetectorIdle
    /\ ConvertIdle

Return(v, how) ==
    /\ result' = v
    /\ via' = how
    /\ pc' = "done"

\* lines 863-866: `marker in text` with a str marker raises TypeError when
\* text is a bytes object
MarkerCheck ==
    /\ pc = "start"
    /\ IF text.kind = "bytes"
       THEN /\ raised' = "TypeError"
            /\ pc' = "done"
            /\ UNCHANGED <<is_indic, repaired>>
       ELSE /\ is_indic' = is_indic_of(text.val)
            /\ repaired' = IF is_indic' THEN repaired ELSE text.val
            /\ pc' = IF is_indic' THEN "replace" ELSE "encode"
            /\ UNCHANGED raised
    /\ UNCHANGED <<input, text, detected, idx, result, via>>
    /\ UNCHANGED otherThanDecode

\* lines 867-869
ApplyTable ==
    /\ pc = "replace"
    /\ text' = [kind |-> "str", val |-> ApplyReplacements(text.val)]
    /\ repaired' = text'.val
    /\ pc' = "iscii"
    /\ UNCHANGED <<input, is_indic, detected, idx, result, via, raised>>
    /\ UNCHANGED otherThanDecode

\* lines 871-882: every exception of the block is swallowed, the division
\* by zero of an empty decoded included, and text stays the encoded bytes
TryIscii ==
    /\ pc = "iscii"
    /\ text' = IF text.kind = "str"
               THEN [kind |-> "bytes", val |-> Utf8EncodeIgnore(text.val)]
               ELSE text
    /\ LET decoded == IsciiDecode(text'.val) IN
       IF decoded.ok /\ decoded.val # <<>> /\ RatioAccepted(decoded.val)
       THEN Return(decoded.val, "iscii")
       ELSE /\ pc' = "encode"
            /\ UNCHANGED <<result, via>>
    /\ UNCHANGED <<input, is_indic, repaired, detected, idx, raised>>
    /\ UNCHANGED otherThanDecode

\* lines 899-901
EncodeText ==
    /\ pc = "encode"
    /\ text' = IF text.kind = "str"
               THEN [kind |-> "bytes", val |-> Utf8EncodeIgnore(text.val)]
               ELSE text
    /\ pc' = "detect"
    /\ UNCHANGED <<input, is_indic, repaired, detected, idx, result, via, raised>>
    /\ UNCHANGED otherThanDecode

\* lines 903-908
Detect ==
    /\ pc = "detect"
    /\ \E d \in ProberOutcomes(text.val) :
         /\ detected' = d
         /\ LET decoded == Decode(d.encoding, text.val) IN
            IF Trusted(d) /\ decoded.ok
            THEN /\ Return(decoded.val, "prober")
                 /\ UNCHANGED idx
            ELSE /\ pc' = "fallback"
                 /\ idx' = 1
                 /\ UNCHANGED <<result, via>>
    /\ UNCHANGED <<input, text, is_indic, repaired, raised>>
    /\ UNCHANGED otherThanDecode

\* lines 911-917, one iteration of the loop
TryEncoding ==
    /\ pc = "fallback"
    /\ LET bytes   == IF text.kind = "bytes" THEN text.val
                      ELSE Utf8EncodeIgnore(text.val)
           decoded == Decode(encodings_to_try[idx], bytes)
       IN  IF decoded.ok /\ decoded.val # <<>> /\ RatioAccepted(decoded.val)
           THEN /\ Return(decoded.val, "fallback")
                /\ UNCHANGED idx
           ELSE /\ IF idx < Len(encodings_to_try)
                   THEN pc' = "fallback" /\ idx' = idx + 1
                   ELSE pc' = "lossy" /\ UNCHANGED idx
                /\ UNCHANGED <<result, via>>
    /\ UNCHANGED <<input, text, is_indic, repaired, detected, raised>>
    /\ UNCHANGED otherThanDecode

\* lines 919-920
LossyFallback ==
    /\ pc = "lossy"
    /\ Return(IF text.kind = "bytes" THEN Utf8DecodeReplace(text.val)
              ELSE text.val, "lossy")
    /\ UNCHANGED <<input, text, is_indic, repaired, detected, idx, raised>>
    /\ UNCHANGED otherThanDecode

Next ==
    \/ MarkerCheck
    \/ ApplyTable
    \/ TryIscii
    \/ EncodeText
    \/ Detect
    \/ TryEncoding
    \/ LossyFallback

Spec == Init /\ [][Next]_vars

TypeOK ==
    /\ pc \in {"idle", "start", "replace", "iscii", "encode", "detect", "fallback", "lossy", "done"}
    /\ text.kind \in {"str", "bytes"}
    /\ idx \in 0..Len(encodings_to_try)
    /\ via \in {"none", "iscii", "prober", "fallback", "lossy"}
    /\ raised \in {"none", "TypeError"}

(***************************************************************************)
(* Vocabulary of the properties, stated independently of the code's        *)
(* tables.                                                                 *)
(***************************************************************************)
\* the legacy-script marker characters É ú ù þ ò ä æ Î õ
MarkerChars == {201, 250, 249, 254, 242, 228, 230, 206, 245}

HasMarker(s) == \E i \in 1..Len(s) : s[i] \in MarkerChars

\* printable-character ratio strictly above 0.8 (ratio 0 for an empty text)
HighRatio(s) == Len(s) > 0 /\ 5 * CountPrintable(s) > 4 * Len(s)

\* the fallback priority list
FallbackOrder ==
    << "utf-8", "utf-16", "utf-32", "iso-8859-1", "cp1252", "ascii",
       "latin1", "latin_1", "iso-8859-15", "windows-1252", "mac_roman" >>

\* candidate k of the fallback list decodes b to a text of high ratio
Acceptable(k, b) ==
    Decode(FallbackOrder[k], b).ok /\ HighRatio(Decode(FallbackOrder[k], b).val)

\* candidate k decodes b, but to a text of low ratio
LowRatioDecode(k, b) ==
    /\ Decode(FallbackOrder[k], b).ok
    /\ Decode(FallbackOrder[k], b).val # <<>>
    /\ ~HighRatio(Decode(FallbackOrder[k], b).val)

Returned == pc = "done" /\ raised = "none"

(***************************************************************************)
(* C1.                                                                     *)
(***************************************************************************)
\* C1: for every input, a byte sequence included, decode never raises: no
\* exception leaves the function and a finished call has returned a string.
C1_NeverRaises == raised = "none" /\ (pc = "done" => via # "none")

(***************************************************************************)
(* C2.                                                                     *)
(***************************************************************************)
\* C2: once the chain has reached the fallback list, the call returns from
\* the list exactly when some encoding of the fixed order decodes the bytes
\* with printable ratio above 0.8, and what it returns is the decode of the
\* earliest such encoding; earlier candidates of low ratio are skipped.
C2_EarliestAcceptable ==
    (Returned /\ via \in {"fallback", "lossy"}) =>
        /\ (via = "fallback") <=>
               (\E k \in 1..Len(FallbackOrder) : Acceptable(k, text.val))
        /\ via = "fallback" =>
               \E k \in 1..Len(FallbackOrder) :
                   /\ Acceptable(k, text.val)
                   /\ \A j \in 1..(k - 1) : ~Acceptable(j, text.val)
                   /\ result = Decode(FallbackOrder[k], text.val).val

\* a later encoding of high ratio was returned although an earlier one had
\* decoded the bytes to a text of low ratio
C2_Witness ==
    /\ Returned /\ via = "fallback"
    /\ HighRatio(result)
    /\ \E j \in 1..(idx - 1) : LowRatioDecode(j, text.val)

(***************************************************************************)
(* C3.                                                                     *)
(***************************************************************************)
\* C3 as stated: every candidate the chain tries, the prober's guess
\* included, is rejected when its decode has a ratio not above 0.8, so a
\* string returned otherwise than by the lossy fallback has a high ratio.
C3_NoLowRatioReturn ==
    (Returned /\ via \in {"iscii", "prober", "fallback"}) => HighRatio(result)

\* C3: a candidate of the fallback list (or the ISCII re-decode) whose decode
\* succeeds with a ratio not above 0.8 is rejected like a failed decode and
\* the chain continues with the next candidate: while the loop is at
\* position idx no earlier candidate was acceptable, the lossy fallback is
\* reached only when none was, and a string returned from the list or the
\* ISCII re-decode has a high ratio.
C3_FallbackRejectsLowRatio ==
    /\ (Returned /\ via \in {"iscii", "fallback"}) => HighRatio(result)
    /\ pc = "fallback" => \A j \in 1..(idx - 1) : ~Acceptable(j, text.val)
    /\ (pc = "lossy" \/ via = "lossy") =>
           \A j \in 1..Len(FallbackOrder) : ~Acceptable(j, text.val)

\* the loop has just rejected a candidate whose decode succeeded with a low
\* ratio and moved on to the next one
C3_Witness ==
    /\ pc = "fallback" /\ idx >= 2
    /\ LowRatioDecode(idx - 1, text.val)

(***************************************************************************)
(* C4.                                                                     *)
(***************************************************************************)
\* C4: the prober runs before the fallback list and its guess is returned
\* only when its confidence is strictly above 0.8 and the decode with the
\* guessed encoding succeeds (the result then is that decode, the list
\* untouched); with a confidence of 0.8 or less, or a failing decode, the
\* guess is discarded and the chain is in the fallback list, no error raised.
C4_ProberTrust ==
    /\ via = "prober" =>
           /\ detected.confidence > 80
           /\ Decode(detected.encoding, text.val).ok
           /\ result = Decode(detected.encoding, text.val).val
           /\ idx = 0
    /\ (pc \in {"fallback", "lossy"} \/ via \in {"fallback", "lossy"}) =>
           /\ \/ detected.confidence <= 80
              \/ ~Decode(detected.encoding, text.val).ok
           /\ idx >= 1
           /\ raised = "none"
    /\ pc \in {"start", "replace", "iscii", "encode", "detect"} => idx = 0

\* a trusted guess was returned, and it is not the UTF-8 reading of the bytes
C4_Witness ==
    /\ Returned /\ via = "prober"
    /\ detected.confidence > 80
    /\ result # Utf8DecodeReplace(text.val)

(***************************************************************************)
(* C5.                                                                     *)
(***************************************************************************)
\* C5: decode always returns some string: a finished call has returned
\* through one of its return statements, and when every candidate was
\* rejected the string is the UTF-8 decoding of the bytes with lossy
\* replacement.
C5_AlwaysReturnsString ==
    pc = "done" =>
        /\ via \in {"iscii", "prober", "fallback", "lossy"}
        /\ via = "lossy" => result = Utf8DecodeReplace(text.val)

(***************************************************************************)
(* C6.                                                                     *)
(***************************************************************************)
\* C6: a zero-length input yields the empty string and no failure; a
\* candidate decode of length 0 is never accepted by the fallback list.
C6_EmptyInputYieldsEmpty ==
    /\ (pc = "done" /\ input.val = <<>>) => (raised = "none" /\ result = <<>>)
    /\ via = "fallback" => result # <<>>

(***************************************************************************)
(* Vocabulary of the repair properties.                                    *)
(***************************************************************************)
\* the table read as a map of single characters: the value of the entry
\* whose key is the one character c, the character itself if there is none
MapChar(c) ==
    IF \E k \in 1..Len(replacements) : replacements[k][1] = <<c>>
    THEN replacements[CHOOSE k \in 1..Len(replacements) :
                          replacements[k][1] = <<c>>][2]
    ELSE <<c>>

RECURSIVE MapEach(_)
\* every character mapped independently
MapEach(s) == IF s = <<>> THEN <<>> ELSE MapChar(Head(s)) \o MapEach(Tail(s))

\* the entries whose key is longer than one character
LongKeys == { k \in 1..Len(replacements) : Len(replacements[k][1]) > 1 }

RECURSIVE ScanFrom(_, _)
\* one left-to-right scan: an occurrence of a long key is replaced as a
\* whole, any other character is mapped on its own
ScanFrom(s, i) ==
    IF i > Len(s) THEN <<>>
    ELSE IF \E k \in LongKeys : MatchesAt(s, replacements[k][1], i)
         THEN LET k == CHOOSE k \in LongKeys : MatchesAt(s, replacements[k][1], i)
              IN  replacements[k][2] \o ScanFrom(s, i + Len(replacements[k][1]))
         ELSE MapChar(s[i]) \o ScanFrom(s, i + 1)

SingleScan(s) == ScanFrom(s, 1)

\* no key of the table occurs in s
NoKeyIn(s) == \A k \in 1..Len(replacements) : ~Contains(s, replacements[k][1])

\* the call was given a str and the repair stage is behind it
PastRepair == input.kind = "str" /\ pc \notin {"start", "replace"}

(***************************************************************************)
(* C7.                                                                     *)
(***************************************************************************)
\* C7: for a text without any legacy-script marker character the repair
\* stage is the identity: the substitution passes are not entered, even
\* when the text holds keys of the table, and the text leaves the stage
\* unchanged.
C7_NoMarkerIdentity ==
    (input.kind = "str" /\ ~HasMarker(input.val)) =>
        /\ pc \notin {"replace", "iscii"}
        /\ ~is_indic
        /\ pc # "start" => repaired = input.val
        /\ pc = "encode" => text = input

\* a text with the keys P and (R) but no marker has passed the stage
C7_Witness ==
    /\ PastRepair /\ ~HasMarker(input.val)
    /\ Contains(input.val, <<80>>) /\ Contains(input.val, <<40, 82, 41>>)
    /\ ~NoKeyIn(repaired)

(***************************************************************************)
(* C8.                                                                     *)
(***************************************************************************)
\* the returned string was decoded as UTF-8
Utf8Accepted ==
    \/ via = "prober" /\ detected.encoding = "utf-8"
    \/ via = "fallback" /\ FallbackOrder[idx] = "utf-8"
    \/ via = "lossy"

\* C8 as stated: for a text with a marker whose ISCII re-decode is not
\* accepted, the returned string is exactly the substituted text.
C8_ReturnsSubstitutedText ==
    (Returned /\ input.kind = "str" /\ HasMarker(input.val) /\ via # "iscii")
        => result = repaired

\* C8: for a text with a marker the substitution is applied first, the
\* ISCII re-decode is never accepted, and the substituted text is kept as the
\* working text in its UTF-8 encoding, on which the prober and the fallback
\* list then run; the returned string is the substituted text whenever the
\* accepted decode is the UTF-8 one.
C8_SubstitutedTextKept ==
    (Returned /\ input.kind = "str" /\ HasMarker(input.val)) =>
        /\ via # "iscii"
        /\ repaired # input.val
        /\ text = [kind |-> "bytes", val |-> Utf8EncodeIgnore(repaired)]
        /\ Utf8Accepted => result = repaired

\* a substituted text came back unchanged from the UTF-8 entry of the list
C8_Witness ==
    /\ Returned /\ input.kind = "str" /\ HasMarker(input.val)
    /\ via = "fallback" /\ idx = 1
    /\ result = repaired /\ repaired # input.val

C10_RepairIdempotent ==
    (PastRepair /\ HasMarker(input.val)) =>
        /\ ~HasMarker(repaired)
        /\ NoKeyIn(repaired)
        /\ Len(repaired) = Len(input.val) => repaired = MapEach(input.val)
        /\ Repair(repaired) = repaired

\* the marker É stood next to the mapped character P and both were replaced
C10_Witness ==
    /\ PastRepair
    /\ \/ Contains(input.val, <<201, 80>>)
       \/ Contains(input.val, <<80, 201>>)
    /\ repaired # input.val
    /\ Repair(repaired) = repaired


(***************************************************************************)
(* normalize_text (src/app.py lines 922-942).                              *)
(***************************************************************************)
MaxNormFragments == 3

\* the characters str.isspace() accepts, which are those of the regex class \s
Whitespace ==
    {9, 10, 11, 12, 13, 28, 29, 30, 31, 32, 133, 160, 5760}
        \cup (8192..8202) \cup {8232, 8233, 8239, 8287, 12288}

IsSpace(c) == c \in Whitespace

\* the variant that keeps every character
RemoveControl_KeepAll(s) == s

\* line 925: ''.join(char for char in text if char.isprintable() or char in '\n\t')
RemoveControl(s) == SelectSeq(s, LAMBDA c : IsPrintable(c) \/ c \in {10, 9})

RECURSIVE CollapseFrom(_, _)
CollapseFrom(s, i) ==
    IF i > Len(s) THEN <<>>
    ELSE IF IsSpace(s[i])
         THEN IF i > 1 /\ IsSpace(s[i - 1])
              THEN CollapseFrom(s, i + 1)
              ELSE <<32>> \o CollapseFrom(s, i + 1)
         ELSE <<s[i]>> \o CollapseFrom(s, i + 1)

\* the variant that collapses runs of the space character only
CollapseWhitespace_SpacesOnly(s) ==
    LET RECURSIVE From(_)
        From(i) ==
            IF i > Len(s) THEN <<>>
            ELSE IF s[i] = 32 /\ i > 1 /\ s[i - 1] = 32
                 THEN From(i + 1)
                 ELSE <<s[i]>> \o From(i + 1)
    IN  From(1)

\* lines 928 and 939: re.sub(r'\s+', ' ', text)
CollapseWhitespace(s) == CollapseFrom(s, 1)

\* lines 931-938, the str.replace calls in the order they are written:
\* 'â€™' -> "'", 'â€œ' -> '"', 'â€' -> '"', 'Â' -> '', 'degü' -> 'deg',
\* '(c)' -> '©'
artifact_fixes ==
    << << <<226, 8364, 8482>>, <<39>> >>,
       << <<226, 8364, 339>>,  <<34>> >>,
       << <<226, 8364>>,       <<34>> >>,
       << <<194>>,             <<>> >>,
       << <<100, 101, 103, 252>>, <<100, 101, 103>> >>,
       << <<40, 99, 41>>,      <<169>> >> >>

\* the position of the last newline of the whitespace run that starts at i,
\* `last` if the run has none
RECURSIVE LastNewlineInRun(_, _, _)
LastNewlineInRun(s, i, last) ==
    IF i > Len(s) THEN last
    ELSE IF ~IsSpace(s[i]) THEN last
    ELSE LastNewlineInRun(s, i + 1, IF s[i] = 10 THEN i ELSE last)

RECURSIVE BlankLinesFrom(_, _)
BlankLinesFrom(s, i) ==
    IF i > Len(s) THEN <<>>
    ELSE LET j == IF s[i] = 10 THEN LastNewlineInRun(s, i + 1, 0) ELSE 0
         IN  IF j > 0
             THEN <<10, 10>> \o BlankLinesFrom(s, j + 1)
             ELSE <<s[i]>> \o BlankLinesFrom(s, i + 1)

\* line 940: re.sub(r'\n\s*\n', '\n\n', text); the greedy \s* backtracks to
\* the last newline of the run
NormalizeNewlines(s) == BlankLinesFrom(s, 1)

\* line 942: str.strip()
Strip(s) ==
    LET kept == {i \in 1..Len(s) : ~IsSpace(s[i])}
    IN  IF kept = {} THEN <<>>
        ELSE SubSeq(s, CHOOSE i \in kept : \A j \in kept : i <= j,
                       CHOOSE i \in kept : \A j \in kept : i >= j)

\* the pieces the texts handed to normalize_text are made of: a letter, a
\* space, two blank lines, the characters of the artifact sequences and a
\* control character
NormFragments ==
    { <<97>>, <<32>>, <<10, 10, 10>>, <<226>>, <<8364>>, <<8482>>, <<194>>,
      <<129>> }

RECURSIVE NormConcats(_)
NormConcats(n) ==
    IF n = 0 THEN {<<>>}
    ELSE LET shorter == NormConcats(n - 1)
         IN  shorter \cup {s \o f : s \in shorter, f \in NormFragments}

NormInputs == NormConcats(MaxNormFragments)

InitNormalize ==
    /\ DecodeIdle
    /\ CleanIdle
    /\ ExportIdle
    /\ PipeIdle
    /\ StageIdle
    /\ SearchIdle
    /\ GenericIdle
    /\ DetectorIdle
    /\ ConvertIdle
    /\ n_input \in NormInputs
    /\ n_text = n_input
    /\ n_pc = "filter"
    /\ n_k = 0
    /\ n_out = <<>>

\* line 925
FilterPrintable ==
    /\ n_pc = "filter"
    /\ n_text' = RemoveControl(n_text)
    /\ n_pc' = "collapse"
    /\ UNCHANGED <<n_input, n_k, n_out>>
    /\ UNCHANGED otherThanNormalize

\* line 928
Collapse ==
    /\ n_pc = "collapse"
    /\ n_text' = CollapseWhitespace(n_text)
    /\ n_pc' = "replace"
    /\ n_k' = 1
    /\ UNCHANGED <<n_input, n_out>>
    /\ UNCHANGED otherThanNormalize

\* lines 931-938, one str.replace
FixArtifact ==
    /\ n_pc = "replace"
    /\ n_text' = Replace(n_text, artifact_fixes[n_k][1], artifact_fixes[n_k][2])
    /\ IF n_k < Len(artifact_fixes)
       THEN n_k' = n_k + 1 /\ n_pc' = "replace"
       ELSE n_k' = 0 /\ n_pc' = "recollapse"
    /\ UNCHANGED <<n_input, n_out>>
    /\ UNCHANGED otherThanNormalize

\* line 939
Recollapse ==
    /\ n_pc = "recollapse"
    /\ n_text' = CollapseWhitespace(n_text)
    /\ n_pc' = "newlines"
    /\ UNCHANGED <<n_input, n_k, n_out>>
    /\ UNCHANGED otherThanNormalize

\* line 940
BlankLines ==
    /\ n_pc = "newlines"
    /\ n_text' = NormalizeNewlines(n_text)
    /\ n_pc' = "strip"
    /\ UNCHANGED <<n_input, n_k, n_out>>
    /\ UNCHANGED otherThanNormalize

\* line 942
StripReturn ==
    /\ n_pc = "strip"
    /\ n_out' = Append(n_out, Strip(n_text))
    /\ n_pc' = "done"
    /\ UNCHANGED <<n_input, n_text, n_k>>
    /\ UNCHANGED otherThanNormalize

\* normalize_text called on what normalize_text returned
NormalizeAgain ==
    /\ n_pc = "done"
    /\ Len(n_out) = 1
    /\ n_text' = n_out[1]
    /\ n_pc' = "filter"
    /\ UNCHANGED <<n_input, n_k, n_out>>
    /\ UNCHANGED otherThanNormalize

NextNormalize ==
    \/ FilterPrintable
    \/ Collapse
    \/ FixArtifact
    \/ Recollapse
    \/ BlankLines
    \/ StripReturn
    \/ NormalizeAgain

SpecNormalize == InitNormalize /\ [][NextNormalize]_vars

\* normalize_text as a function of its argument
normalize_text(s) ==
    LET RECURSIVE FixFrom(_, _)
        FixFrom(t, k) ==
            IF k > Len(artifact_fixes) THEN t
            ELSE FixFrom(Replace(t, artifact_fixes[k][1], artifact_fixes[k][2]), k + 1)
    IN  Strip(NormalizeNewlines(CollapseWhitespace(
            FixFrom(CollapseWhitespace(RemoveControl(s)), 1))))


(***************************************************************************)
(* Properties of normalize_text.                                           *)
(***************************************************************************)
\* the mis-decoded sequences 'â€™', 'â€œ', 'â€' and the stray 'Â'
ArtifactSequences ==
    { <<226, 8364, 8482>>, <<226, 8364, 339>>, <<226, 8364>>, <<194>> }

\* two blank lines
TwoBlankLines == <<10, 10, 10>>

\* text = p, two blank lines, q, with p and q paragraphs that normalize to
\* something
SplitsAt(s, i) ==
    /\ MatchesAt(s, TwoBlankLines, i)
    /\ normalize_text(SubSeq(s, 1, i - 1)) # <<>>
    /\ normalize_text(Drop(s, i + 2)) # <<>>

\* C11: normalize_text(normalize_text(x)) = normalize_text(x) for every
\* text x.
C11_NormalizeIdempotent == Len(n_out) = 2 => n_out[2] = n_out[1]

\* C12: what normalize_text returns holds only printable characters, its
\* only whitespace is single spaces between other characters, and so it has
\* no newline, no tab, no two adjacent spaces and no leading or trailing
\* whitespace.
C12_OutputCollapsed ==
    \A k \in 1..Len(n_out) :
        LET o == n_out[k] IN
        /\ \A i \in 1..Len(o) : IsPrintable(o[i]) /\ o[i] \notin {10, 9}
        /\ \A i \in 1..Len(o) : IsSpace(o[i]) => o[i] = 32
        /\ \A i \in 1..(Len(o) - 1) : ~(IsSpace(o[i]) /\ IsSpace(o[i + 1]))
        /\ o # <<>> => ~IsSpace(o[1]) /\ ~IsSpace(o[Len(o)])

\* a text that starts with a control character and blank lines has been
\* normalized to what follows them
C12_Witness ==
    /\ Len(n_out) >= 1
    /\ n_input = <<129>> \o TwoBlankLines \o <<97>>
    /\ n_out[1] = <<97>>

\* C13 as stated: two paragraphs that two blank lines separate come out
\* with exactly one blank line between them.
C13_OneBlankLine ==
    \A i \in 1..Len(n_input) :
        Len(n_out) >= 1 /\ SplitsAt(n_input, i) =>
            n_out[1] = normalize_text(SubSeq(n_input, 1, i - 1)) \o <<10, 10>>
                           \o normalize_text(Drop(n_input, i + 2))

\* C13: two paragraphs that two blank lines separate come out with exactly
\* one space between them, and with no newline.
C13_BlankLinesBecomeSpace ==
    \A i \in 1..Len(n_input) :
        Len(n_out) >= 1 /\ SplitsAt(n_input, i) =>
            /\ n_out[1] = normalize_text(SubSeq(n_input, 1, i - 1)) \o <<32>>
                              \o normalize_text(Drop(n_input, i + 2))
            /\ ~Contains(n_out[1], <<10>>)

C13_Witness ==
    /\ Len(n_out) >= 1
    /\ n_input = <<97>> \o TwoBlankLines \o <<97>>
    /\ n_out[1] = <<97, 32, 97>>

\* C14: what normalize_text returns contains none of the sequences 'â€™',
\* 'â€œ', 'â€' and no 'Â'.
C14_NoArtifactLeft ==
    \A k \in 1..Len(n_out) :
        \A a \in ArtifactSequences : ~Contains(n_out[k], a)


(***************************************************************************)
(* ContentExporters.clean_text of src/whitepaper/exporters.py (lines       *)
(* 9-89), the cleaner for the renderer of 8-bit text.                      *)
(***************************************************************************)
MaxCleanFragments == 2
MaxCleanByteLen == 3

\* the dict literal of lines 18-82 as Python reads it, <<key, value>> per
\* entry.  Lines 21-22 are written with the ASCII quotation mark as key, and
\* the two entries of lines 23-24 are read as one entry whose key is a
\* triple-quoted string of 40 characters.
clean_replacements_literal ==
    << << <<8211>>, <<45>> >>,
       << <<8212>>, <<45, 45>> >>,
       << <<34>>, <<34>> >>,
       << <<34>>, <<34>> >>,
       << <<58, 32, 34, 39, 34, 44, 32, 32, 35, 32, 108, 101, 102, 116, 32,
             115, 105, 110, 103, 108, 101, 32, 113, 117, 111, 116, 101, 10,
             32, 32, 32, 32, 32, 32, 32, 32, 32, 32, 32, 32>>, <<39>> >>,
       << <<8230>>, <<46, 46, 46>> >>,
       << <<8226>>, <<42>> >>,
       << <<8594>>, <<45, 62>> >>,
       << <<8592>>, <<60, 45>> >>,
       << <<177>>, <<43, 47, 45>> >>,
       << <<215>>, <<120>> >>,
       << <<247>>, <<47>> >>,
       << <<176>>, <<32, 100, 101, 103>> >>,
       << <<937>>, <<79, 104, 109>> >>,
       << <<945>>, <<97, 108, 112, 104, 97>> >>,
       << <<946>>, <<98, 101, 116, 97>> >>,
       << <<947>>, <<103, 97, 109, 109, 97>> >>,
       << <<948>>, <<100, 101, 108, 116, 97>> >>,
       << <<956>>, <<109, 117>> >>,
       << <<960>>, <<112, 105>> >>,
       << <<8734>>, <<105, 110, 102, 105, 110, 105, 116, 121>> >>,
       << <<169>>, <<40, 99, 41>> >>,
       << <<174>>, <<40, 82, 41>> >>,
       << <<8482>>, <<40, 84, 77, 41>> >>,
       << <<8364>>, <<69, 85, 82>> >>,
       << <<163>>, <<71, 66, 80>> >>,
       << <<165>>, <<74, 80, 89>> >>,
       << <<167>>, <<83>> >>,
       << <<182>>, <<80>> >>,
       << <<8224>>, <<43>> >>,
       << <<8225>>, <<43, 43>> >>,
       << <<8226>>, <<42>> >>,
       << <<8230>>, <<46, 46, 46>> >>,
       << <<8242>>, <<39>> >>,
       << <<8243>>, <<34>> >>,
       << <<8244>>, <<34>> >>,
       << <<8245>>, <<96>> >>,
       << <<8246>>, <<96, 96>> >>,
       << <<8247>>, <<96, 96, 96>> >>,
       << <<8248>>, <<94>> >>,
       << <<8251>>, <<42>> >>,
       << <<8252>>, <<33, 33>> >>,
       << <<8263>>, <<63, 63>> >>,
       << <<8264>>, <<63, 33>> >>,
       << <<8265>>, <<33, 63>> >>,
       << <<8270>>, <<42>> >>,
       << <<8271>>, <<59>> >>,
       << <<8272>>, <<80>> >>,
       << <<8273>>, <<42, 42>> >>,
       << <<8274>>, <<37>> >>,
       << <<8275>>, <<126>> >>,
       << <<8276>>, <<95>> >>,
       << <<8277>>, <<42>> >>,
       << <<8278>>, <<46, 46, 46>> >>,
       << <<8279>>, <<46, 46, 46, 46>> >>,
       << <<8280>>, <<45>> >>,
       << <<8281>>, <<46, 46, 46, 46, 46>> >>,
       << <<8282>>, <<46, 46>> >>,
       << <<8283>>, <<46, 46, 46, 46>> >>,
       << <<8284>>, <<46, 46, 46>> >>,
       << <<8285>>, <<46, 46, 46>> >>,
       << <<8286>>, <<46, 46, 46, 46>> >> >>

clean_replacements == DictFrom(clean_replacements_literal, 1)

\* bytes.decode(name, errors='replace')
DecodeReplace(name, b) ==
    LET codec == CodecOf(name) IN
    IF codec = "utf-8" THEN Utf8DecodeReplace(b)
    ELSE [i \in 1..Len(b) |->
             LET c == DecodeByte(codec, b[i]) IN IF c = -1 THEN 65533 ELSE c]

\* the variant that keeps every character
StripNonLatin1_KeepAll(s) == s

\* line 89: ''.join(char for char in text if ord(char) < 256)
StripNonLatin1(s) == SelectSeq(s, LAMBDA c : c < 256)

\* the pieces of the str arguments: a, é, €, the curly quotes ’ and “, ©,
\* the Devanagari letter ka, the ASCII quotation mark and the 40-character
\* key of the table
CleanFragments ==
    { <<97>>, <<233>>, <<8364>>, <<8217>>, <<8220>>, <<169>>, <<2325>>,
      <<34>>, clean_replacements_literal[5][1] }

RECURSIVE CleanConcats(_)
CleanConcats(n) ==
    IF n = 0 THEN {<<>>}
    ELSE LET shorter == CleanConcats(n - 1)
         IN  shorter \cup {s \o f : s \in shorter, f \in CleanFragments}

CleanStrInputs ==
    { [kind |-> "str", val |-> s] : s \in CleanConcats(MaxCleanFragments) }

CleanByteSamples == {97, 201, 169}

CleanBytesInputs ==
    { [kind |-> "bytes", val |-> b] :
        b \in UNION { [1..n -> CleanByteSamples] : n \in 0..MaxCleanByteLen } }

\* what detected['encoding'] can be: a codec name or None
CleanProberGuesses(b) ==
    IF b = <<>> THEN {"None"} ELSE ProberEncodings \cup {"None"}

InitClean ==
    /\ DecodeIdle
    /\ NormIdle
    /\ ExportIdle
    /\ PipeIdle
    /\ StageIdle
    /\ SearchIdle
    /\ GenericIdle
    /\ DetectorIdle
    /\ ConvertIdle
    /\ c_input \in CleanStrInputs \cup CleanBytesInputs
    /\ c_text = <<>>
    /\ c_pc = "start"
    /\ c_k = 0
    /\ c_out = <<>>

\* lines 12-15
CleanDetect ==
    /\ c_pc = "start"
    /\ IF c_input.kind = "bytes"
       THEN \E guess \in CleanProberGuesses(c_input.val) :
                LET encoding == IF guess = "None" THEN "utf-8" ELSE guess
                IN  c_text' = DecodeReplace(encoding, c_input.val)
       ELSE c_text' = c_input.val
    /\ c_pc' = "replace"
    /\ c_k' = 1
    /\ UNCHANGED <<c_input, c_out>>
    /\ UNCHANGED otherThanClean

\* lines 85-86, one iteration of the loop
CleanReplace ==
    /\ c_pc = "replace"
    /\ c_text' = Replace(c_text, clean_replacements[c_k][1],
                                 clean_replacements[c_k][2])
    /\ IF c_k < Len(clean_replacements)
       THEN c_k' = c_k + 1 /\ c_pc' = "replace"
       ELSE c_k' = 0 /\ c_pc' = "strip"
    /\ UNCHANGED <<c_input, c_out>>
    /\ UNCHANGED otherThanClean

\* line 89
CleanStrip ==
    /\ c_pc = "strip"
    /\ c_out' = StripNonLatin1(c_text)
    /\ c_pc' = "done"
    /\ UNCHANGED <<c_input, c_text, c_k>>
    /\ UNCHANGED otherThanClean

NextClean ==
    \/ CleanDetect
    \/ CleanReplace
    \/ CleanStrip

SpecClean == InitClean /\ [][NextClean]_vars


(***************************************************************************)
(* Properties of clean_text (whitepaper/exporters.py).                     *)
(***************************************************************************)
CleanReturned == c_pc = "done"

\* the table value of the key that is the one character c; c itself when it
\* is below 256 and no key; nothing otherwise
CleanChar(c) ==
    IF \E k \in 1..Len(clean_replacements) : clean_replacements[k][1] = <<c>>
    THEN (CHOOSE e \in {clean_replacements[k] : k \in 1..Len(clean_replacements)} :
              e[1] = <<c>>)[2]
    ELSE IF c < 256 THEN <<c>> ELSE <<>>

RECURSIVE CleanEach(_)
CleanEach(s) == IF s = <<>> THEN <<>> ELSE CleanChar(Head(s)) \o CleanEach(Tail(s))

\* the curly quotes U+2018, U+2019, U+201C, U+201D
CurlyQuotes == {8216, 8217, 8220, 8221}

AsciiQuoteOf(c) ==
    IF c \in {8216, 8217} THEN 39 ELSE IF c \in {8220, 8221} THEN 34 ELSE c

\* C15: what clean_text returns, for a str or a bytes argument, has no
\* character with code point 256 or more.
C15_OutputLatin1 ==
    CleanReturned => \A i \in 1..Len(c_out) : c_out[i] < 256

\* a str with a Devanagari letter, and a bytes object decoded to a character
\* above 255, have been cleaned
C15_Witness ==
    /\ CleanReturned
    /\ \/ c_input = [kind |-> "str", val |-> <<2325, 97>>] /\ c_out = <<97>>
       \/ /\ c_input = [kind |-> "bytes", val |-> <<201, 169, 97>>]
          /\ c_text = <<617, 97>>
          /\ c_out = <<97>>

\* C16: for a str argument, every character below 256 that is no key of the
\* table is kept in place and in order, and every character that is a key
\* is replaced by its value (é stays, € becomes EUR).
C16_PerCharacter ==
    CleanReturned /\ c_input.kind = "str" => c_out = CleanEach(c_input.val)

\* C17: every curly single quote of the argument comes out as an ASCII
\* apostrophe and every curly double quote as an ASCII quotation mark.
C17_SmartQuotesMapped ==
    /\ CleanReturned
    /\ c_input.kind = "str"
    /\ \A i \in 1..Len(c_input.val) : c_input.val[i] \in CurlyQuotes \cup {97}
    => c_out = [i \in 1..Len(c_input.val) |-> AsciiQuoteOf(c_input.val[i])]


(***************************************************************************)
(* The generic cleaner ContentExporters.clean_text of src/app.py (lines    *)
(* 327-335).                                                               *)
(***************************************************************************)
\* the characters the regex class \w accepts (str.isalnum() or '_'), for the
\* Unicode pages 00-03, 09, 20 and 21
WordRanges ==
    { <<48, 57>>, <<65, 90>>, <<95, 95>>, <<97, 122>>, <<170, 170>>,
      <<178, 179>>, <<181, 181>>, <<185, 186>>, <<188, 190>>, <<192, 214>>,
      <<216, 246>>, <<248, 255>>, <<256, 511>>, <<512, 705>>, <<710, 721>>,
      <<736, 740>>, <<748, 748>>, <<750, 750>>, <<880, 884>>, <<886, 887>>,
      <<890, 893>>, <<895, 895>>, <<902, 902>>, <<904, 906>>, <<908, 908>>,
      <<910, 929>>, <<931, 1013>>, <<1015, 1023>>, <<2308, 2361>>,
      <<2365, 2365>>, <<2384, 2384>>, <<2392, 2401>>, <<2406, 2415>>,
      <<2417, 2432>>, <<2437, 2444>>, <<2447, 2448>>, <<2451, 2472>>,
      <<2474, 2480>>, <<2482, 2482>>, <<2486, 2489>>, <<2493, 2493>>,
      <<2510, 2510>>, <<2524, 2525>>, <<2527, 2529>>, <<2534, 2545>>,
      <<2548, 2553>>, <<2556, 2556>>, <<8304, 8305>>, <<8308, 8313>>,
      <<8319, 8329>>, <<8336, 8348>>, <<8450, 8450>>, <<8455, 8455>>,
      <<8458, 8467>>, <<8469, 8469>>, <<8473, 8477>>, <<8484, 8484>>,
      <<8486, 8486>>, <<8488, 8488>>, <<8490, 8493>>, <<8495, 8505>>,
      <<8508, 8511>>, <<8517, 8521>>, <<8526, 8526>>, <<8528, 8585>> }

IsWord(c) == \E r \in WordRanges : r[1] <= c /\ c <= r[2]

\* the punctuation of the class of line 334: . , ; : ! ? - ( ) [ ] { }
AllowedPunctuation == {46, 44, 59, 58, 33, 63, 45, 40, 41, 91, 93, 123, 125}

\* a character that re.sub(r'[^\w\s\.\,\;\:\!\?\-\(\)\[\]\{\}]', '', text)
\* keeps
AllowedChar(c) == IsWord(c) \/ IsSpace(c) \/ c \in AllowedPunctuation

\* the variant without the filter of line 334
app_clean_text_unfiltered(s) == Strip(CollapseWhitespace(s))

\* lines 332-335
app_clean_text(s) ==
    Strip(SelectSeq(CollapseWhitespace(s), AllowedChar))

(***************************************************************************)
(* The exporters.                                                          *)
(***************************************************************************)
MaxExportFragments == 3

\* str.split(sep) for a non-empty sep
RECURSIVE SplitFrom(_, _, _, _)
SplitFrom(s, sep, i, start) ==
    IF i + Len(sep) - 1 > Len(s) THEN <<SubSeq(s, start, Len(s))>>
    ELSE IF MatchesAt(s, sep, i)
         THEN <<SubSeq(s, start, i - 1)>>
                  \o SplitFrom(s, sep, i + Len(sep), i + Len(sep))
         ELSE SplitFrom(s, sep, i + 1, start)

Split(s, sep) == SplitFrom(s, sep, 1, 1)

\* clean_text of whitepaper/exporters.py for a str argument, as a function
exporters_clean_text(s) ==
    LET RECURSIVE From(_, _)
        From(t, k) ==
            IF t = <<>> \/ k > Len(clean_replacements) THEN t
            ELSE From(Replace(t, clean_replacements[k][1],
                                 clean_replacements[k][2]), k + 1)
    IN  StripNonLatin1(From(s, 1))

\* the variant that hands every line that is not blank to the renderer
Rendered_NotBlank(cleaned_line) == Strip(cleaned_line) # <<>>

\* whitepaper/exporters.py line 118: the line is rendered
Rendered(cleaned_line) ==
    LET stripped == Strip(cleaned_line) IN
    /\ stripped # <<>>
    /\ ~MatchesAt(stripped, <<115, 116, 121, 108, 101>>, 1)
    /\ ~MatchesAt(stripped, <<47, 42>>, 1)
    /\ ~MatchesAt(stripped, <<42, 47>>, 1)

\* the elements of seq at the positions of keep, in order
RECURSIVE Pick(_, _, _)
Pick(seq, keep, i) ==
    IF i > Len(seq) THEN <<>>
    ELSE (IF i \in keep THEN <<seq[i]>> ELSE <<>>) \o Pick(seq, keep, i + 1)

\* the pieces of the contents: a, the euro sign, the Devanagari vowel sign
\* aa, a newline, a space and the comment opener
ExportFragments == { <<97>>, <<8364>>, <<2366>>, <<10>>, <<32>>, <<47, 42>> }

RECURSIVE ExportConcats(_)
ExportConcats(n) ==
    IF n = 0 THEN {<<>>}
    ELSE LET shorter == ExportConcats(n - 1)
         IN  shorter \cup {s \o f : s \in shorter, f \in ExportFragments}

ExportContents == ExportConcats(MaxExportFragments)

InitExport ==
    /\ DecodeIdle
    /\ NormIdle
    /\ CleanIdle
    /\ PipeIdle
    /\ StageIdle
    /\ SearchIdle
    /\ GenericIdle
    /\ DetectorIdle
    /\ ConvertIdle
    /\ x_content \in ExportContents
    /\ x_exporter = "none"
    /\ x_rendered = <<>>
    /\ x_result = "none"
    /\ x_raised = {}

\* whitepaper/exporters.py lines 92-133: a line whose cleaning or rendering
\* raises is skipped (lines 120-122); a failure before the loop (lines
\* 104-111) or in pdf.output (line 125) is caught and None is returned
ExportersExportAsPdf ==
    /\ x_exporter = "none"
    /\ x_exporter' = "exporters.export_as_pdf"
    /\ \/ /\ x_rendered' = <<>>
          /\ x_raised' = {}
          /\ x_result' = "None"
       \/ LET lines == Split(x_content, <<10>>)
              cleaned == [i \in 1..Len(lines) |->
                             exporters_clean_text(lines[i])]
          IN  \E raising \in SUBSET (1..Len(lines)) :
                  /\ x_rendered' = Pick(cleaned,
                                        {i \in 1..Len(lines) :
                                             /\ i \notin raising
                                             /\ Rendered(cleaned[i])},
                                        1)
                  /\ x_raised' = raising
                  /\ x_result' \in {"path", "None"}
    /\ UNCHANGED x_content
    /\ UNCHANGED otherThanExport

\* whitepaper/exporters.py lines 136-196: content goes to markdown.markdown
\* as it is; nothing is caught
ExportersExportAsHtml ==
    /\ x_exporter = "none"
    /\ x_exporter' = "exporters.export_as_html"
    /\ x_rendered' = <<x_content>>
    /\ x_result' \in {"path", "raised"}
    /\ UNCHANGED <<x_content, x_raised>>
    /\ UNCHANGED otherThanExport

\* src/app.py lines 338-383: the paragraphs that are not blank, as they are
AppExportAsPdf ==
    /\ x_exporter = "none"
    /\ x_exporter' = "app.export_as_pdf"
    /\ LET paragraphs == Split(x_content, <<10, 10>>)
       IN  x_rendered' = Pick(paragraphs,
                              {i \in 1..Len(paragraphs) :
                                   Strip(paragraphs[i]) # <<>>}, 1)
    /\ x_result' \in {"path", "None"}
    /\ UNCHANGED <<x_content, x_raised>>
    /\ UNCHANGED otherThanExport

\* src/app.py lines 386-420: the cleaned content, chr(10) replaced by '<br>'
AppExportAsHtml ==
    /\ x_exporter = "none"
    /\ x_exporter' = "app.export_as_html"
    /\ x_rendered' =
           <<Replace(app_clean_text(x_content), <<10>>, <<60, 98, 114, 62>>)>>
    /\ x_result' \in {"path", "None"}
    /\ UNCHANGED <<x_content, x_raised>>
    /\ UNCHANGED otherThanExport

NextExport ==
    \/ ExportersExportAsPdf
    \/ ExportersExportAsHtml
    \/ AppExportAsPdf
    \/ AppExportAsHtml

SpecExport == InitExport /\ [][NextExport]_vars

(***************************************************************************)
(* Properties of the exporters.                                            *)
(***************************************************************************)
HtmlExporters == {"exporters.export_as_html", "app.export_as_html"}

\* the characters of s that are no whitespace
InkOf(s) == SelectSeq(s, LAMBDA c : ~IsSpace(c))

\* a occurs in b as a subsequence
RECURSIVE IsSubsequence(_, _)
IsSubsequence(a, b) ==
    IF a = <<>> THEN TRUE
    ELSE IF b = <<>> THEN FALSE
    ELSE IF Head(a) = Head(b) THEN IsSubsequence(Tail(a), Tail(b))
    ELSE IsSubsequence(a, Tail(b))

\* C18: an HTML exporter hands every character of the content that is no
\* whitespace on to the HTML output, in order, characters with code point
\* 256 or more included; no cleaning step removes one.
C18_HtmlKeepsEveryCharacter ==
    x_exporter \in HtmlExporters =>
        /\ Len(x_rendered) = 1
        /\ IsSubsequence(InkOf(x_content), x_rendered[1])


\* the words that keep a line out of the PDF: 'style', '/*' and '*/'
StyleWords == << <<115, 116, 121, 108, 101>>, <<47, 42>>, <<42, 47>> >>

\* s begins with w
BeginsWith(s, w) == Len(s) >= Len(w) /\ SubSeq(s, 1, Len(w)) = w

\* the line is blank or style-related after cleaning
Unwanted(cleaned) ==
    \/ \A k \in 1..Len(cleaned) : IsSpace(cleaned[k])
    \/ \E w \in 1..Len(StyleWords) : BeginsWith(Strip(cleaned), StyleWords[w])

\* the cleaned lines of the content from line i on that did not raise and are
\* wanted, in the order of the content
RECURSIVE WantedLinesFrom(_, _, _)
WantedLinesFrom(lines, failed, i) ==
    IF i > Len(lines) THEN <<>>
    ELSE LET cleaned == exporters_clean_text(lines[i])
             rest == WantedLinesFrom(lines, failed, i + 1)
         IN  IF i \in failed \/ Unwanted(cleaned) THEN rest
             ELSE <<cleaned>> \o rest

\* C25: export_as_pdf of the exporters module ends with the path or with
\* None, never with an exception; when the file is written, the renderer got
\* exactly the cleaned lines that did not raise, in the order of the content,
\* without the lines that are blank after cleaning and without the lines that
\* start with 'style', '/*' or '*/'.
C25_PdfSkipsFailingLines ==
    x_exporter = "exporters.export_as_pdf" =>
        /\ x_result \in {"path", "None"}
        /\ x_result = "path" =>
               x_rendered = WantedLinesFrom(Split(x_content, <<10>>), x_raised, 1)

\* the first line raised and the second line was rendered all the same
C25_Witness ==
    /\ x_exporter = "exporters.export_as_pdf"
    /\ x_result = "path"
    /\ x_content = <<97, 10, 8364>>
    /\ x_raised = {1}
    /\ x_rendered = << <<69, 85, 82>> >>


(***************************************************************************)
(* The document pipeline (src/app.py lines 1024-1059), translate_to_english*)
(* (lines 944-960) and create_search_tool (lines 962-979).                 *)
(***************************************************************************)
MaxPages == 3

\* what the loop of lines 911-917 returns from position k on, and the lossy
\* decode of line 920 when no encoding of the list is accepted
RECURSIVE FallbackFrom(_, _)
FallbackFrom(b, k) ==
    IF k > Len(encodings_to_try) THEN Utf8DecodeReplace(b)
    ELSE LET decoded == Decode(encodings_to_try[k], b) IN
         IF decoded.ok /\ decoded.val # <<>> /\ RatioAccepted(decoded.val)
         THEN decoded.val
         ELSE FallbackFrom(b, k + 1)

\* decode_indic_text as a function of a str argument: the strings it can
\* return, one for each answer of the prober
DecodeResults(s) ==
    LET b == Utf8EncodeIgnore(Repair(s))
        iscii == IsciiDecode(b)
    IN  IF is_indic_of(s) /\ iscii.ok /\ iscii.val # <<>>
               /\ RatioAccepted(iscii.val)
        THEN {iscii.val}
        ELSE { IF Trusted(d) /\ Decode(d.encoding, b).ok
               THEN Decode(d.encoding, b).val
               ELSE FallbackFrom(b, 1) : d \in ProberOutcomes(b) }

\* str(n) for a positive n
RECURSIVE Decimal(_)
Decimal(n) ==
    IF n < 10 THEN <<48 + n>> ELSE Decimal(n \div 10) \o <<48 + (n % 10)>>

\* the numbering that counts the pages with text only
PageNumber_CountWithText(ps, k) == Cardinality({j \in 1..k : ps[j] # <<>>})

\* line 1028: enumerate(pdf_reader.pages, 1) numbers the k-th page k
PageNumber(ps, k) == k

\* f"\n=== Page {i} Raw ===\n{page_text}\n"
RawBlock(n, page_text) ==
    <<10, 61, 61, 61, 32, 80, 97, 103, 101, 32>> \o Decimal(n)
        \o <<32, 82, 97, 119, 32, 61, 61, 61, 10>> \o page_text \o <<10>>

\* f"\n=== Page {i} ===\n{cleaned_text}\n"
PageBlock(n, cleaned_text) ==
    <<10, 61, 61, 61, 32, 80, 97, 103, 101, 32>> \o Decimal(n)
        \o <<32, 61, 61, 61, 10>> \o cleaned_text \o <<10>>

\* translate_to_english without the fallback of line 960
translate_to_english_no_fallback(t, r) == r.text

\* lines 946-960: the text of the response, the argument when the call or
\* the reading of the response raised
translate_to_english(t, r) == IF r.ok THEN r.text ELSE t

\* what generate_content can do: answer with a text, or raise
ModelResponses ==
    { [called |-> TRUE, ok |-> TRUE, text |-> <<84>>],
      [called |-> TRUE, ok |-> FALSE, text |-> <<>>] }

\* the texts of the pages: none, a, a text with a marker character, the
\* euro sign, and the line '=== Page 9 ===' between two newlines
PageTexts ==
    { <<>>, <<97>>, <<201, 97>>, <<8364>>,
      <<10, 61, 61, 61, 32, 80, 97, 103, 101, 32, 57, 32, 61, 61, 61, 10>> }

PageLists == UNION { [1..n -> PageTexts] : n \in 0..MaxPages }

InitPipeline ==
    /\ DecodeIdle
    /\ NormIdle
    /\ CleanIdle
    /\ ExportIdle
    /\ StageIdle
    /\ SearchIdle
    /\ GenericIdle
    /\ DetectorIdle
    /\ ConvertIdle
    /\ pages \in PageLists
    /\ translate \in BOOLEAN
    /\ page_i = 0
    /\ raw_text = <<>>
    /\ processed_text = <<>>
    /\ response = NoCall
    /\ session = EmptySession
    /\ pipe_pc = "pages"

\* lines 1028-1042, one iteration of the loop
ProcessPage ==
    /\ pipe_pc = "pages"
    /\ page_i < Len(pages)
    /\ page_i' = page_i + 1
    /\ LET page_text == pages[page_i'] IN
       IF page_text # <<>>
       THEN /\ raw_text' = raw_text \o RawBlock(PageNumber(pages, page_i'), page_text)
            /\ \E decoded_text \in DecodeResults(page_text) :
                   LET normalized_text == normalize_text(decoded_text)
                       cleaned_text == app_clean_text(normalized_text)
                   IN  processed_text' = processed_text
                           \o PageBlock(PageNumber(pages, page_i'), cleaned_text)
       ELSE UNCHANGED <<raw_text, processed_text>>
    /\ UNCHANGED <<pages, translate, response, session, pipe_pc>>
    /\ UNCHANGED otherThanPipeline

\* lines 1045-1046, when the loop has ended
StoreTexts ==
    /\ pipe_pc = "pages"
    /\ page_i = Len(pages)
    /\ session' = [session EXCEPT !.raw_text = [set |-> TRUE, val |-> raw_text],
                                  !.processed_text = [set |-> TRUE, val |-> processed_text]]
    /\ pipe_pc' = IF translate THEN "translate" ELSE "tool"
    /\ UNCHANGED <<pages, translate, page_i, raw_text, processed_text, response>>
    /\ UNCHANGED otherThanPipeline

\* lines 1049-1056
Translate ==
    /\ pipe_pc = "translate"
    /\ \E r \in ModelResponses :
           /\ response' = r
           /\ LET translated_text == translate_to_english(processed_text, r)
              IN  session' = [session EXCEPT
                      !.translated_text = [set |-> TRUE, val |-> translated_text],
                      !.search_tool = [set |-> TRUE, val |-> translated_text]]
    /\ pipe_pc' = "done"
    /\ UNCHANGED <<pages, translate, page_i, raw_text, processed_text>>
    /\ UNCHANGED otherThanPipeline

\* lines 1057-1059
ToolOverProcessed ==
    /\ pipe_pc = "tool"
    /\ session' = [session EXCEPT
           !.search_tool = [set |-> TRUE, val |-> processed_text]]
    /\ pipe_pc' = "done"
    /\ UNCHANGED <<pages, translate, page_i, raw_text, processed_text, response>>
    /\ UNCHANGED otherThanPipeline

NextPipeline ==
    \/ ProcessPage
    \/ StoreTexts
    \/ Translate
    \/ ToolOverProcessed

SpecPipeline == InitPipeline /\ [][NextPipeline]_vars


(***************************************************************************)
(* Properties of the document pipeline.                                    *)
(***************************************************************************)
\* the texts the block of a page can hold: the text of the page decoded,
\* then normalized, then cleaned
BlockTexts(page_text) ==
    { app_clean_text(normalize_text(d)) : d \in DecodeResults(page_text) }

\* the marker line '=== Page <n> ==='
Marker(n) == <<61, 61, 61, 32, 80, 97, 103, 101, 32>> \o Decimal(n) \o <<32, 61, 61, 61>>

\* the processed texts of the first k pages of ps: one block for each page
\* with text, in page order, under the marker of the page's position
RECURSIVE ExpectedProcessed(_, _)
ExpectedProcessed(ps, k) ==
    IF k = 0 THEN {<<>>}
    ELSE IF ps[k] = <<>> THEN ExpectedProcessed(ps, k - 1)
    ELSE { e \o <<10>> \o Marker(k) \o <<10>> \o t \o <<10>> :
               e \in ExpectedProcessed(ps, k - 1), t \in BlockTexts(ps[k]) }

\* C19: the processed text is, in page order, one block for each page with
\* non-empty extracted text, each block the marker '=== Page <n> ===' with n
\* the 1-based position of the page followed by the decoded, normalized and
\* cleaned text of that page alone; the session holds that text.
C19_InOrderFold ==
    /\ processed_text \in ExpectedProcessed(pages, page_i)
    /\ session.processed_text.set =>
           /\ page_i = Len(pages)
           /\ session.processed_text.val = processed_text

\* three pages, the second without text: the blocks are those of pages 1
\* and 3
C19_Witness ==
    /\ pipe_pc = "done"
    /\ pages = << <<97>>, <<>>, <<97>> >>
    /\ session.processed_text.val =
           <<10>> \o Marker(1) \o <<10, 97, 10>> \o <<10>> \o Marker(3) \o <<10, 97, 10>>

\* C20: after the translation step the session holds a search tool over a
\* usable text: the answer of the model when the call succeeded, the
\* untranslated processed text when the call failed or no translation was
\* asked for; the failure does not leave the pipeline.
C20_TranslationFallback ==
    pipe_pc = "done" =>
        /\ session.search_tool.set
        /\ session.processed_text.set
        /\ IF translate
           THEN /\ response.called
                /\ session.translated_text.set
                /\ session.translated_text.val =
                       (IF response.ok THEN response.text
                        ELSE session.processed_text.val)
                /\ session.search_tool.val = session.translated_text.val
           ELSE /\ ~response.called
                /\ session.search_tool.val = session.processed_text.val

\* the model call failed on a document with text
C20_Witness ==
    /\ pipe_pc = "done"
    /\ translate
    /\ response.called /\ ~response.ok
    /\ processed_text # <<>>
    /\ session.translated_text.val = processed_text
    /\ session.search_tool.val = processed_text


\* the lines of a text, as str.split(chr(10)) gives them
LinesOf(t) == Split(t, <<10>>)

IsDigit(c) == 48 <= c /\ c <= 57

\* the line has the form '=== Page <n> ==='
IsHeaderLine(l) ==
    /\ Len(l) >= 14
    /\ SubSeq(l, 1, 9) = <<61, 61, 61, 32, 80, 97, 103, 101, 32>>
    /\ SubSeq(l, Len(l) - 3, Len(l)) = <<32, 61, 61, 61>>
    /\ \A k \in 10..(Len(l) - 4) : IsDigit(l[k])

\* the pages among the first k that have extracted text
PagesWithText(ps, k) == {j \in 1..k : ps[j] # <<>>}

\* C28: the processed text is, for each page with extracted text, an empty
\* line, a header line and one line of content; the lines of content hold no
\* '=' and so are no headers, and the header lines are as many as the pages
\* with text.
C28_HeadersNotForged ==
    LET lines == LinesOf(processed_text)
        n == Cardinality(PagesWithText(pages, page_i))
    IN  /\ Cardinality({k \in 1..Len(lines) : IsHeaderLine(lines[k])}) = n
        /\ Len(lines) = 3 * n + 1
        /\ \A j \in 1..n :
               /\ lines[3 * j - 2] = <<>>
               /\ IsHeaderLine(lines[3 * j - 1])
               /\ \A k \in 1..Len(lines[3 * j]) : lines[3 * j][k] # 61
        /\ lines[Len(lines)] = <<>>

\* a page whose text is a header line between two newlines leaves the words
\* 'Page 9' on the one line of its block
C28_Witness ==
    /\ pipe_pc = "done"
    /\ Len(pages) = 2
    /\ pages[1] = <<10, 61, 61, 61, 32, 80, 97, 103, 101, 32, 57, 32, 61, 61, 61, 10>>
    /\ pages[2] = <<97>>
    /\ LinesOf(processed_text) =
           << <<>>, Marker(1), <<80, 97, 103, 101, 32, 57>>,
              <<>>, Marker(2), <<97>>, <<>> >>


(***************************************************************************)
(* The stages on plain text: decode_indic_text (src/app.py 787-920), its   *)
(* repair block (864-869), normalize_text (922-942) and clean_text of      *)
(* whitepaper/exporters.py (9-89), each called on the same text.           *)
(***************************************************************************)
MaxStageFragments == 3

\* the pieces of the plain texts: H, a space, (c), P and the quotation mark
StageFragments == { <<72>>, <<32>>, <<40, 99, 41>>, <<80>>, <<34>> }

RECURSIVE StageConcats(_)
StageConcats(n) ==
    IF n = 0 THEN {<<>>}
    ELSE LET shorter == StageConcats(n - 1)
         IN  shorter \cup {s \o f : s \in shorter, f \in StageFragments}

\* printable ASCII, no space at either end, no two spaces in a row
SingleSpacedAscii(s) ==
    /\ \A i \in 1..Len(s) : 32 <= s[i] /\ s[i] <= 126
    /\ s # <<>> => s[1] # 32 /\ s[Len(s)] # 32
    /\ \A i \in 1..(Len(s) - 1) : ~(s[i] = 32 /\ s[i + 1] = 32)

StageInputs == {s \in StageConcats(MaxStageFragments) : SingleSpacedAscii(s)}

InitStages ==
    /\ DecodeIdle
    /\ NormIdle
    /\ CleanIdle
    /\ ExportIdle
    /\ PipeIdle
    /\ SearchIdle
    /\ GenericIdle
    /\ DetectorIdle
    /\ ConvertIdle
    /\ st_input \in StageInputs
    /\ st_pc = "decode"
    /\ st_decoded = <<>>
    /\ st_repaired = <<>>
    /\ st_normalized = <<>>
    /\ st_sanitized = <<>>

\* decode_indic_text(text), for any answer of the prober
RunDecode ==
    /\ st_pc = "decode"
    /\ st_decoded' \in DecodeResults(st_input)
    /\ st_pc' = "repair"
    /\ UNCHANGED <<st_input, st_repaired, st_normalized, st_sanitized>>
    /\ UNCHANGED otherThanStages

\* src/app.py lines 864-869 on text
RunRepair ==
    /\ st_pc = "repair"
    /\ st_repaired' = Repair(st_input)
    /\ st_pc' = "normalize"
    /\ UNCHANGED <<st_input, st_decoded, st_normalized, st_sanitized>>
    /\ UNCHANGED otherThanStages

\* normalize_text(text)
RunNormalize ==
    /\ st_pc = "normalize"
    /\ st_normalized' = normalize_text(st_input)
    /\ st_pc' = "sanitize"
    /\ UNCHANGED <<st_input, st_decoded, st_repaired, st_sanitized>>
    /\ UNCHANGED otherThanStages

\* ContentExporters.clean_text(text) of whitepaper/exporters.py
RunSanitize ==
    /\ st_pc = "sanitize"
    /\ st_sanitized' = exporters_clean_text(st_input)
    /\ st_pc' = "done"
    /\ UNCHANGED <<st_input, st_decoded, st_repaired, st_normalized>>
    /\ UNCHANGED otherThanStages

NextStages ==
    \/ RunDecode
    \/ RunRepair
    \/ RunNormalize
    \/ RunSanitize

SpecStages == InitStages /\ [][NextStages]_vars

\* C21: on a text of printable ASCII characters that is single-spaced and
\* trimmed, decode, repair, normalize and sanitize each return the text
\* unchanged.
C21_StagesAreIdentity ==
    /\ st_pc \in {"repair", "normalize", "sanitize", "done"} =>
           st_decoded = st_input
    /\ st_pc \in {"normalize", "sanitize", "done"} => st_repaired = st_input
    /\ st_pc \in {"sanitize", "done"} => st_normalized = st_input
    /\ st_pc = "done" => st_sanitized = st_input


(***************************************************************************)
(* The PDF search tool (src/whitepaper/tools.py lines 11-107).             *)
(***************************************************************************)
MaxDocPages == 2

\* the variant that changes no letter
Lower_Unchanged(s) == s

\* str.lower() on the characters of the queries and answers of the model,
\* which are ASCII: A-Z become a-z
Lower(s) ==
    [i \in 1..Len(s) |-> IF 65 <= s[i] /\ s[i] <= 90 THEN s[i] + 32 ELSE s[i]]

\* s.startswith(prefixes) for a tuple of prefixes
StartsWithAny(s, prefixes) ==
    \E k \in 1..Len(prefixes) : MatchesAt(s, prefixes[k], 1)

\* line 81: ("extract all", "get all", "find all")
whole_document_prefixes ==
    << <<101, 120, 116, 114, 97, 99, 116, 32, 97, 108, 108>>,
       <<103, 101, 116, 32, 97, 108, 108>>,
       <<102, 105, 110, 100, 32, 97, 108, 108>> >>

\* lines 86 and 96: ("not found", "i cannot", "i am unable")
refusal_prefixes ==
    << <<110, 111, 116, 32, 102, 111, 117, 110, 100>>,
       <<105, 32, 99, 97, 110, 110, 111, 116>>,
       <<105, 32, 97, 109, 32, 117, 110, 97, 98, 108, 101>> >>

\* line 81
IsWholeDocumentQuery(q) == StartsWithAny(Lower(q), whole_document_prefixes)

\* the test with the refusals compared as they are written
Accepted_CaseSensitive(answer) ==
    answer # <<>> /\ ~StartsWithAny(answer, refusal_prefixes)

\* lines 86 and 96: result and not result.lower().startswith((...))
Accepted(answer) ==
    answer # <<>> /\ ~StartsWithAny(Lower(answer), refusal_prefixes)

\* f"\n\n=== Page {page_number} ===\n{text}"
FullTextBlock(page_number, t) ==
    <<10, 10, 61, 61, 61, 32, 80, 97, 103, 101, 32>> \o Decimal(page_number)
        \o <<32, 61, 61, 61, 10>> \o t

\* lines 29-37, from the k-th loaded page on; page.metadata['page'] is the
\* 0-based index of the page
RECURSIVE FullTextFrom(_, _)
FullTextFrom(ps, k) ==
    IF k > Len(ps) THEN <<>>
    ELSE (IF Strip(ps[k]) # <<>> THEN FullTextBlock(k, Strip(ps[k])) ELSE <<>>)
             \o FullTextFrom(ps, k + 1)

RECURSIVE PageTextsFrom(_, _)
PageTextsFrom(ps, k) ==
    IF k > Len(ps) THEN <<>>
    ELSE (IF Strip(ps[k]) # <<>> THEN << <<k, Strip(ps[k])>> >> ELSE <<>>)
             \o PageTextsFrom(ps, k + 1)

\* f"{query} (on page {page_num})"
PageQuery(q, page_num) ==
    q \o <<32, 40, 111, 110, 32, 112, 97, 103, 101, 32>> \o Decimal(page_num) \o <<41>>

\* f"[Page {page_num}]: {page_result}"
PageAnswer(page_num, page_result) ==
    <<91, 80, 97, 103, 101, 32>> \o Decimal(page_num) \o <<93, 58, 32>> \o page_result

\* "\n\n".join(rs)
RECURSIVE JoinBlankLine(_)
JoinBlankLine(rs) ==
    IF rs = <<>> THEN <<>>
    ELSE IF Len(rs) = 1 THEN rs[1]
    ELSE rs[1] \o <<10, 10>> \o JoinBlankLine(Tail(rs))

\* line 102
not_found_message ==
    <<84, 104, 101, 32, 114, 101, 113, 117, 101, 115, 116, 101, 100, 32,
      105, 110, 102, 111, 114, 109, 97, 116, 105, 111, 110, 32, 119, 97,
      115, 32, 110, 111, 116, 32, 102, 111, 117, 110, 100, 32, 105, 110,
      32, 116, 104, 101, 32, 100, 111, 99, 117, 109, 101, 110, 116, 46>>

\* f"Error processing PDF: {str(e)}"
ErrorString(message) ==
    <<69, 114, 114, 111, 114, 32, 112, 114, 111, 99, 101, 115, 115, 105,
      110, 103, 32, 80, 68, 70, 58, 32>> \o message

\* what chain.run can do: answer "A", answer nothing, answer "Not found",
\* answer "I am unable", or raise an exception whose str() is "E"
ChainOutcomes ==
    { [raised |-> FALSE, text |-> <<65>>],
      [raised |-> FALSE, text |-> <<>>],
      [raised |-> FALSE, text |-> <<78, 111, 116, 32, 102, 111, 117, 110, 100>>],
      [raised |-> FALSE, text |-> <<73, 32, 97, 109, 32, 117, 110, 97, 98, 108, 101>>],
      [raised |-> TRUE,  text |-> <<69>>] }

\* page_content of a page: nothing, a space, a, b
LoadedPageTexts == { <<>>, <<32>>, <<97>>, <<98>> }

LoadedPageLists == UNION { [1..n -> LoadedPageTexts] : n \in 0..MaxDocPages }

\* the queries: "extract all", "Get All", "FIND ALL x", "title" and
\* " find all"
Queries ==
    { <<101, 120, 116, 114, 97, 99, 116, 32, 97, 108, 108>>,
      <<71, 101, 116, 32, 65, 108, 108>>,
      <<70, 73, 78, 68, 32, 65, 76, 76, 32, 120>>,
      <<116, 105, 116, 108, 101>>,
      <<32, 102, 105, 110, 100, 32, 97, 108, 108>> }

InitSearch ==
    /\ DecodeIdle
    /\ NormIdle
    /\ CleanIdle
    /\ ExportIdle
    /\ PipeIdle
    /\ StageIdle
    /\ GenericIdle
    /\ DetectorIdle
    /\ ConvertIdle
    /\ loaded_pages \in LoadedPageLists
    /\ full_text = <<>>
    /\ page_texts = <<>>
    /\ query \in Queries
    /\ search_pc = "create"
    /\ page_k = 0
    /\ results = <<>>
    /\ chain_calls = <<>>
    /\ search_result = <<>>

\* lines 25-37 and 107
CreateTool ==
    /\ search_pc = "create"
    /\ full_text' = FullTextFrom(loaded_pages, 1)
    /\ page_texts' = PageTextsFrom(loaded_pages, 1)
    /\ search_pc' = "search"
    /\ UNCHANGED <<loaded_pages, query, page_k, results, chain_calls,
                   search_result>>
    /\ UNCHANGED otherThanSearch

\* lines 79-90 and 104-105
SearchWhole ==
    /\ search_pc = "search"
    /\ IF IsWholeDocumentQuery(query)
       THEN /\ search_result' = full_text
            /\ search_pc' = "done"
            /\ UNCHANGED <<chain_calls, page_k, results>>
       ELSE \E answer \in ChainOutcomes :
                /\ chain_calls' = Append(chain_calls,
                       [query |-> query, context |-> full_text,
                        answer |-> answer])
                /\ IF answer.raised
                   THEN /\ search_result' = ErrorString(answer.text)
                        /\ search_pc' = "done"
                        /\ UNCHANGED <<page_k, results>>
                   ELSE IF Accepted(answer.text)
                   THEN /\ search_result' = answer.text
                        /\ search_pc' = "done"
                        /\ UNCHANGED <<page_k, results>>
                   ELSE /\ results' = <<>>
                        /\ page_k' = 1
                        /\ search_pc' = "pages"
                        /\ UNCHANGED search_result
    /\ UNCHANGED <<loaded_pages, full_text, page_texts, query>>
    /\ UNCHANGED otherThanSearch

\* lines 91-97 and 104-105, one iteration of the loop
SearchPage ==
    /\ search_pc = "pages"
    /\ page_k <= Len(page_texts)
    /\ LET page_num  == page_texts[page_k][1]
           page_text == page_texts[page_k][2]
       IN  \E answer \in ChainOutcomes :
               /\ chain_calls' = Append(chain_calls,
                      [query |-> PageQuery(query, page_num),
                       context |-> page_text, answer |-> answer])
               /\ IF answer.raised
                  THEN /\ search_result' = ErrorString(answer.text)
                       /\ search_pc' = "done"
                       /\ UNCHANGED <<page_k, results>>
                  ELSE /\ results' = IF Accepted(answer.text)
                                     THEN Append(results,
                                              PageAnswer(page_num, answer.text))
                                     ELSE results
                       /\ page_k' = page_k + 1
                       /\ UNCHANGED <<search_pc, search_result>>
    /\ UNCHANGED <<loaded_pages, full_text, page_texts, query>>
    /\ UNCHANGED otherThanSearch

\* lines 99-102
SearchJoin ==
    /\ search_pc = "pages"
    /\ page_k > Len(page_texts)
    /\ search_result' = IF results # <<>> THEN JoinBlankLine(results)
                        ELSE not_found_message
    /\ search_pc' = "done"
    /\ UNCHANGED <<loaded_pages, full_text, page_texts, query, page_k, results,
                   chain_calls>>
    /\ UNCHANGED otherThanSearch

NextSearch ==
    \/ CreateTool
    \/ SearchWhole
    \/ SearchPage
    \/ SearchJoin

SpecSearch == InitSearch /\ [][NextSearch]_vars


(***************************************************************************)
(* Properties of the PDF search tool.                                      *)
(***************************************************************************)
FoldCase(c) == IF 65 <= c /\ c <= 90 THEN c + 32 ELSE c

\* s begins with the word w, letters compared without regard to case
BeginsIgnoringCase(s, w) ==
    /\ Len(s) >= Len(w)
    /\ \A i \in 1..Len(w) : FoldCase(s[i]) = FoldCase(w[i])

\* 'extract all', 'get all', 'find all'
WholeDocumentWords ==
    { <<101, 120, 116, 114, 97, 99, 116, 32, 97, 108, 108>>,
      <<103, 101, 116, 32, 97, 108, 108>>,
      <<102, 105, 110, 100, 32, 97, 108, 108>> }

\* 'not found', 'i cannot', 'i am unable'
RefusalWords ==
    { <<110, 111, 116, 32, 102, 111, 117, 110, 100>>,
      <<105, 32, 99, 97, 110, 110, 111, 116>>,
      <<105, 32, 97, 109, 32, 117, 110, 97, 98, 108, 101>> }

WholeDocumentStyle(q) == \E w \in WholeDocumentWords : BeginsIgnoringCase(q, w)

\* an answer that is returned: not empty and no refusal
Usable(answer) ==
    answer # <<>> /\ ~(\E w \in RefusalWords : BeginsIgnoringCase(answer, w))

SearchReturned == search_pc = "done"

\* the answers of the page calls 2..n of cs that are usable, each under the
\* number of its page
RECURSIVE PageAnswersFrom(_, _)
PageAnswersFrom(cs, j) ==
    IF j > Len(cs) THEN <<>>
    ELSE (IF Usable(cs[j].answer.text)
          THEN <<PageAnswer(page_texts[j - 1][1], cs[j].answer.text)>>
          ELSE <<>>) \o PageAnswersFrom(cs, j + 1)

\* C22: for a query that begins, in any case, with 'extract all', 'get all'
\* or 'find all', search returns the whole page-marked text of the document
\* and calls the model not once.
C22_WholeDocumentWithoutModel ==
    SearchReturned /\ WholeDocumentStyle(query) =>
        /\ chain_calls = <<>>
        /\ search_result = full_text
        /\ \A k \in 1..Len(loaded_pages) :
               Strip(loaded_pages[k]) # <<>> =>
                   Contains(search_result,
                            Marker(k) \o <<10>> \o Strip(loaded_pages[k]))

\* "Get All" on a document of two pages
C22_Witness ==
    /\ SearchReturned
    /\ query = <<71, 101, 116, 32, 65, 108, 108>>
    /\ loaded_pages = << <<97>>, <<98>> >>
    /\ chain_calls = <<>>
    /\ search_result = full_text
    /\ full_text # <<>>

\* C27: for any other query, search first asks the model over the whole
\* text and returns a usable answer at once; otherwise it asks page by page,
\* in page order, and returns the usable page answers, each under
\* '[Page n]: ' and blank lines between them, or the not-found message when
\* there is none; an exception of any call is returned as the string
\* 'Error processing PDF: ...'.
C27_WholeThenPages ==
    SearchReturned /\ ~WholeDocumentStyle(query) =>
        LET cs == chain_calls
            n == Len(chain_calls)
        IN  /\ n >= 1
            /\ cs[1].query = query /\ cs[1].context = full_text
            /\ \A j \in 1..(n - 1) : ~cs[j].answer.raised
            /\ \A j \in 2..n :
                   /\ ~Usable(cs[1].answer.text)
                   /\ j - 1 <= Len(page_texts)
                   /\ cs[j].context = page_texts[j - 1][2]
                   /\ cs[j].query = PageQuery(query, page_texts[j - 1][1])
            /\ \A j \in 1..(Len(page_texts) - 1) :
                   page_texts[j][1] < page_texts[j + 1][1]
            /\ IF cs[n].answer.raised
               THEN search_result = ErrorString(cs[n].answer.text)
               ELSE IF Usable(cs[1].answer.text)
               THEN n = 1 /\ search_result = cs[1].answer.text
               ELSE /\ n = 1 + Len(page_texts)
                    /\ search_result =
                           (IF PageAnswersFrom(cs, 2) # <<>>
                            THEN JoinBlankLine(PageAnswersFrom(cs, 2))
                            ELSE not_found_message)

\* the model refused over the whole text and answered on both pages
C27_Witness ==
    /\ SearchReturned
    /\ query = <<116, 105, 116, 108, 101>>
    /\ Len(chain_calls) = 3
    /\ chain_calls[1].answer.text = <<78, 111, 116, 32, 102, 111, 117, 110, 100>>
    /\ search_result = <<91, 80, 97, 103, 101, 32, 49, 93, 58, 32, 65, 10, 10, 91, 80, 97,
          103, 101, 32, 50, 93, 58, 32, 65>>


(***************************************************************************)
(* The generic cleaner on its own (src/app.py lines 327-335).              *)
(***************************************************************************)
MaxGenericFragments == 3

\* the pieces of the texts: a, a space, a newline, the number sign, and the
\* number sign between two spaces
GenericFragments == { <<97>>, <<32>>, <<10>>, <<35>>, <<32, 35, 32>> }

RECURSIVE GenericConcats(_)
GenericConcats(n) ==
    IF n = 0 THEN {<<>>}
    ELSE LET shorter == GenericConcats(n - 1)
         IN  shorter \cup {s \o f : s \in shorter, f \in GenericFragments}

GenericInputs == GenericConcats(MaxGenericFragments)

InitGeneric ==
    /\ DecodeIdle
    /\ NormIdle
    /\ CleanIdle
    /\ ExportIdle
    /\ PipeIdle
    /\ StageIdle
    /\ SearchIdle
    /\ DetectorIdle
    /\ ConvertIdle
    /\ g_input \in GenericInputs
    /\ g_pc = "first"
    /\ g_once = <<>>
    /\ g_twice = <<>>

\* clean_text(text)
GenericClean ==
    /\ g_pc = "first"
    /\ g_once' = app_clean_text(g_input)
    /\ g_pc' = "second"
    /\ UNCHANGED <<g_input, g_twice>>
    /\ UNCHANGED otherThanGeneric

\* clean_text of the text clean_text returned
GenericCleanAgain ==
    /\ g_pc = "second"
    /\ g_twice' = app_clean_text(g_once)
    /\ g_pc' = "done"
    /\ UNCHANGED <<g_input, g_once>>
    /\ UNCHANGED otherThanGeneric

NextGeneric ==
    \/ GenericClean
    \/ GenericCleanAgain

SpecGeneric == InitGeneric /\ [][NextGeneric]_vars

\* no two whitespace characters of s are neighbours
NoAdjacentWhitespace(s) ==
    \A k \in 1..(Len(s) - 1) : ~(IsSpace(s[k]) /\ IsSpace(s[k + 1]))

\* C29: the generic cleaner is idempotent, and its output never holds two
\* adjacent whitespace characters.
C29_GenericCleanIdempotent ==
    /\ g_pc \in {"second", "done"} => NoAdjacentWhitespace(g_once)
    /\ g_pc = "done" => g_twice = g_once


(***************************************************************************)
(* The encoding detector (src/whitepaper/encoding_detector.py lines 11-57).*)
(***************************************************************************)
MaxDetectorPages == 3

\* the texts of the pages: none, a, e with acute accent
DetectorPageTexts == { <<>>, <<97>>, <<233>> }

DetectorPageLists ==
    UNION { [1..n -> DetectorPageTexts] : n \in 0..MaxDetectorPages }

\* what encoding_result['encoding'] can be: None, a name Python has a codec
\* for, or a name of the prober Python has no codec for
DetectorGuesses == {"None", "utf-8", "windows-1252", "EUC-TW"}

\* the names bytes.decode raises LookupError for
UnknownCodecs == {"EUC-TW"}

InitDetector ==
    /\ DecodeIdle
    /\ NormIdle
    /\ CleanIdle
    /\ ExportIdle
    /\ PipeIdle
    /\ StageIdle
    /\ SearchIdle
    /\ GenericIdle
    /\ ConvertIdle
    /\ d_pages \in DetectorPageLists
    /\ d_page_k = 0
    /\ d_text_chunks = <<>>
    /\ d_encodings = <<>>
    /\ d_pc = "extract"
    /\ d_i = 0
    /\ d_processed_text = <<>>

\* lines 18-32, one iteration of the loop of extract_text_from_pdf
ExtractPage ==
    /\ d_pc = "extract"
    /\ d_page_k < Len(d_pages)
    /\ d_page_k' = d_page_k + 1
    /\ LET page_text == d_pages[d_page_k'] IN
       IF page_text # <<>>
       THEN \E guess \in DetectorGuesses :
                /\ d_text_chunks' = Append(d_text_chunks,
                       [text |-> page_text,
                        bytes |-> Utf8EncodeIgnore(page_text),
                        encoding |-> guess])
                /\ d_encodings' = Append(d_encodings, guess)
       ELSE UNCHANGED <<d_text_chunks, d_encodings>>
    /\ UNCHANGED <<d_pages, d_pc, d_i, d_processed_text>>
    /\ UNCHANGED otherThanDetector

\* line 34, and the call of process_for_research with what was returned
ReturnChunks ==
    /\ d_pc = "extract"
    /\ d_page_k = Len(d_pages)
    /\ d_pc' = "process"
    /\ UNCHANGED <<d_pages, d_page_k, d_text_chunks, d_encodings, d_i,
                   d_processed_text>>
    /\ UNCHANGED otherThanDetector

\* lines 43-55, one iteration of the loop of process_for_research:
\* enumerate(text_chunks) counts the chunks from 0
ProcessChunk ==
    /\ d_pc = "process"
    /\ d_i < Len(d_text_chunks)
    /\ d_i' = d_i + 1
    /\ LET i == d_i
           chunk == d_text_chunks[i + 1]
           encoding == IF d_encodings[i + 1] # "None"
                       THEN d_encodings[i + 1] ELSE "utf-8"
           decoded_text == IF encoding \in UnknownCodecs THEN chunk.text
                           ELSE DecodeReplace(encoding, chunk.bytes)
       IN  d_processed_text' =
               d_processed_text \o PageBlock(i + 1, decoded_text)
    /\ UNCHANGED <<d_pages, d_page_k, d_text_chunks, d_encodings, d_pc>>
    /\ UNCHANGED otherThanDetector

\* line 57
ReturnProcessed ==
    /\ d_pc = "process"
    /\ d_i = Len(d_text_chunks)
    /\ d_pc' = "done"
    /\ UNCHANGED <<d_pages, d_page_k, d_text_chunks, d_encodings, d_i,
                   d_processed_text>>
    /\ UNCHANGED otherThanDetector

NextDetector ==
    \/ ExtractPage
    \/ ReturnChunks
    \/ ProcessChunk
    \/ ReturnProcessed

SpecDetector == InitDetector /\ [][NextDetector]_vars

\* the positions of the pages of ps that have text, in page order
RECURSIVE PositionsWithText(_, _)
PositionsWithText(ps, k) ==
    IF k = 0 THEN <<>>
    ELSE PositionsWithText(ps, k - 1) \o (IF ps[k] # <<>> THEN <<k>> ELSE <<>>)

\* C26: the header written for a chunk carries the 1-based position, in the
\* PDF, of the page the chunk was extracted from, also when an earlier page
\* had no text.
C26_HeaderIsPdfPageNumber ==
    d_pc \in {"process", "done"} =>
        LET positions == PositionsWithText(d_pages, Len(d_pages))
            lines == LinesOf(d_processed_text)
        IN  \A j \in 1..d_i : lines[3 * j - 1] = Marker(positions[j])


(***************************************************************************)
(* The conversion: process_pdf (src/whitepaper/main.py lines 29-81) and    *)
(* the 'Process PDF' handlers (src/app.py lines 1108-1200,                 *)
(* src/whitepaper/app.py lines 110-163).                                   *)
(***************************************************************************)
\* the last second of the clock
MaxClock == 2

\* a value that is a path, or None
NonePath == [none |-> TRUE, place |-> "", id |-> 0, ext |-> ""]

\* output_dir / f"{filename_base}.{ext}"; place and id name the directory
PathIn(place, id, ext) == [none |-> FALSE, place |-> place, id |-> id, ext |-> ext]

\* bool(value): None is false, a Path object is true
Truthy(p) == ~p.none

OutputFormats == {"pdf", "html", "both"}

\* whitepaper/tools.py line 107, return search: the tool is the closure, a
\* function object, and these are the attributes the code could look up on it
SearchToolAttributes == {"__call__", "__name__"}

\* the list of main.py lines 69-79 with None appended like a path
MainOutputs_Unfiltered(output_format, pdf_path, html_path) ==
    (IF output_format \in {"pdf", "both"} THEN <<pdf_path>> ELSE <<>>)
        \o (IF output_format \in {"html", "both"} THEN <<html_path>> ELSE <<>>)

\* whitepaper/main.py lines 69-79: the list outputs
MainOutputs(output_format, pdf_path, html_path) ==
    (IF output_format \in {"pdf", "both"} /\ Truthy(pdf_path)
     THEN <<pdf_path>> ELSE <<>>)
        \o (IF output_format \in {"html", "both"} THEN <<html_path>> ELSE <<>>)

\* what the collaborators of process_pdf can do: the loader of each tool and
\* the crew raise or not, export_as_pdf returns the path or None,
\* export_as_html returns the path or raises
MainChoices ==
    [pdf_tool : {"tool", "raised"}, brand_tool : {"tool", "raised"},
     crew : {"result", "raised"}, pdf : {"path", "None"},
     html : {"path", "raised"}]

\* whitepaper/main.py lines 42-81 for one behaviour c of the collaborators
ProcessPdfRun(brand_guidelines, output_format, place, id, c) ==
    LET wants_pdf == output_format \in {"pdf", "both"}
        wants_html == output_format \in {"html", "both"}
        to_brand_tool == <<"pdf_tool">> \o
            (IF brand_guidelines THEN <<"brand_tool">> ELSE <<>>)
        to_search == to_brand_tool \o
            (IF brand_guidelines THEN <<"brand_tool.search">> ELSE <<>>)
        to_html == to_search \o <<"crew">> \o
            (IF wants_pdf THEN <<"export_as_pdf">> ELSE <<>>) \o
            (IF wants_html THEN <<"export_as_html">> ELSE <<>>)
        pdf_path == IF c.pdf = "path" THEN PathIn(place, id, "pdf") ELSE NonePath
        html_path == PathIn(place, id, "html")
        Run(steps, failed, pdf, html, outputs) ==
            [called |-> TRUE, brand_guidelines |-> brand_guidelines,
             output_format |-> output_format, steps |-> steps,
             raised |-> failed, pdf_export |-> pdf, html_export |-> html,
             outputs |-> outputs]
        Raised(steps) == Run(steps, TRUE, "not called", "not called", <<>>)
        pdf_export == IF wants_pdf THEN c.pdf ELSE "not called"
    IN  IF c.pdf_tool = "raised" THEN Raised(<<"pdf_tool">>)
        ELSE IF brand_guidelines /\ c.brand_tool = "raised"
        THEN Raised(to_brand_tool)
        ELSE IF brand_guidelines /\ "search" \notin SearchToolAttributes
        THEN Raised(to_search)
        ELSE IF c.crew = "raised" THEN Raised(to_search \o <<"crew">>)
        ELSE IF wants_html /\ c.html = "raised"
        THEN Run(to_html, TRUE, pdf_export, "raised", <<>>)
        ELSE Run(to_html \o <<"return">>, FALSE, pdf_export,
                 IF wants_html THEN "path" ELSE "not called",
                 MainOutputs(output_format, pdf_path, html_path))

ProcessPdfRuns(brand_guidelines, output_format, place, id) ==
    { ProcessPdfRun(brand_guidelines, output_format, place, id, c) :
          c \in MainChoices }

\* the session value that is always the list just built
StoredOutputs_Always(current, outputs) == [none |-> FALSE, paths |-> outputs]

\* src/app.py lines 1190-1194, src/whitepaper/app.py lines 144-159: the
\* list is stored when it is not empty
StoredOutputs(current, outputs) ==
    IF outputs # <<>> THEN [none |-> FALSE, paths |-> outputs] ELSE current

\* the seconds the clock can show at the next conversion
NextSeconds == {t \in {unique_id, unique_id + 1} : t <= MaxClock}

InitConvert ==
    /\ DecodeIdle
    /\ NormIdle
    /\ CleanIdle
    /\ ExportIdle
    /\ PipeIdle
    /\ StageIdle
    /\ SearchIdle
    /\ GenericIdle
    /\ DetectorIdle
    /\ current_outputs = NoOutputs
    /\ unique_id = 1
    /\ pdf_run = NoPdfRun
    /\ handler_run = NoHandlerRun

\* whitepaper/main.py line 96: process_pdf called from the command line
CallProcessPdf ==
    /\ \E brand_guidelines \in BOOLEAN, output_format \in OutputFormats :
           pdf_run' \in ProcessPdfRuns(brand_guidelines, output_format,
                                       "exports", 0)
    /\ UNCHANGED <<current_outputs, unique_id, handler_run>>
    /\ UNCHANGED otherThanConvert

\* src/whitepaper/app.py lines 110-163: the handler of 'Process PDF'
WhitepaperProcessPdf ==
    /\ \E t \in NextSeconds, brand_guidelines \in BOOLEAN,
          output_format \in OutputFormats, copied \in BOOLEAN :
         \E run \in ProcessPdfRuns(brand_guidelines, output_format, "temp", t) :
           LET permanent_outputs ==
                   [k \in 1..Len(run.outputs) |->
                        PathIn("exports", t, run.outputs[k].ext)]
               outcome ==
                   IF run.raised THEN "exception"
                   ELSE IF run.outputs = <<>> THEN "no outputs"
                   ELSE IF ~copied THEN "exception"
                   ELSE "stored"
           IN  /\ unique_id' = t
               /\ pdf_run' = run
               /\ handler_run' =
                      [handler |-> "whitepaper/app.py", outcome |-> outcome,
                       outputs |-> IF outcome = "stored"
                                   THEN permanent_outputs ELSE <<>>]
               /\ current_outputs' =
                      IF outcome \in {"stored", "no outputs"}
                      THEN StoredOutputs(current_outputs, handler_run'.outputs)
                      ELSE current_outputs
    /\ UNCHANGED otherThanConvert

\* what the collaborators of the handler of app.py can do: the converter and
\* the crew raise or not, the result of the crew is empty or not, each
\* exporter returns the path or None
AppChoices ==
    [converter : {"converter", "raised"}, crew : {"result", "empty", "raised"},
     pdf : {"path", "None"}, html : {"path", "None"}]

\* src/app.py lines 1108-1200: the handler of 'Process PDF'
AppProcessPdf ==
    /\ \E t \in NextSeconds, output_format \in OutputFormats, c \in AppChoices :
           LET pdf_path == IF c.pdf = "path" THEN PathIn("exports", t, "pdf")
                           ELSE NonePath
               html_path == IF c.html = "path" THEN PathIn("exports", t, "html")
                            ELSE NonePath
               outputs ==
                   (IF output_format \in {"pdf", "both"} /\ Truthy(pdf_path)
                    THEN <<pdf_path>> ELSE <<>>)
                   \o (IF output_format \in {"html", "both"} /\ Truthy(html_path)
                       THEN <<html_path>> ELSE <<>>)
               outcome ==
                   IF c.converter = "raised" \/ c.crew = "raised"
                   THEN "exception"
                   ELSE IF c.crew = "empty" THEN "no result"
                   ELSE IF outputs = <<>> THEN "no outputs"
                   ELSE "stored"
           IN  /\ unique_id' = IF outcome \in {"stored", "no outputs"}
                               THEN t ELSE unique_id
               /\ handler_run' =
                      [handler |-> "app.py", outcome |-> outcome,
                       outputs |-> IF outcome = "stored" THEN outputs ELSE <<>>]
               /\ current_outputs' =
                      IF outcome \in {"stored", "no outputs"}
                      THEN StoredOutputs(current_outputs, handler_run'.outputs)
                      ELSE current_outputs
    /\ UNCHANGED pdf_run
    /\ UNCHANGED otherThanConvert

NextConvert ==
    \/ CallProcessPdf
    \/ WhitepaperProcessPdf
    \/ AppProcessPdf

SpecConvert == InitConvert /\ [][NextConvert]_vars


(***************************************************************************)
(* Properties of the conversion.                                           *)
(***************************************************************************)
\* the list holds a path with the extension ext
HasOutput(outputs, ext) ==
    \E k \in 1..Len(outputs) : ~outputs[k].none /\ outputs[k].ext = ext

\* C23: what process_pdf returns holds the PDF path exactly when the format
\* is 'pdf' or 'both' and export_as_pdf returned a path, holds the HTML path
\* exactly when the format is 'html' or 'both', has the PDF before the HTML,
\* and holds no None and nothing else.
C23_ReturnsGeneratedPaths ==
    pdf_run.called /\ ~pdf_run.raised =>
        LET outputs == pdf_run.outputs IN
        /\ HasOutput(outputs, "pdf") <=>
               /\ pdf_run.output_format \in {"pdf", "both"}
               /\ pdf_run.pdf_export = "path"
        /\ HasOutput(outputs, "html") <=>
               pdf_run.output_format \in {"html", "both"}
        /\ \A k \in 1..Len(outputs) :
               ~outputs[k].none /\ outputs[k].ext \in {"pdf", "html"}
        /\ \A j, k \in 1..Len(outputs) :
               j < k => outputs[j].ext = "pdf" /\ outputs[k].ext = "html"

\* both formats were asked for and the PDF export failed: the HTML path alone
C23_Witness ==
    /\ pdf_run.called
    /\ ~pdf_run.raised
    /\ pdf_run.output_format = "both"
    /\ pdf_run.pdf_export = "None"
    /\ Len(pdf_run.outputs) = 1
    /\ pdf_run.outputs[1].ext = "html"

\* C24: a call of process_pdf with brand guidelines queries the brand tool
\* and goes on to the crew; the query of the brand tool is not where the call
\* ends.
C24_BrandGuidelinesReachCrew ==
    pdf_run.called /\ pdf_run.brand_guidelines =>
        /\ pdf_run.raised =>
               pdf_run.steps[Len(pdf_run.steps)] # "brand_tool.search"
        /\ ~pdf_run.raised =>
               \E k \in 1..Len(pdf_run.steps) :
                   pdf_run.steps[k] = "brand_tool.search"

\* C30: a step leaves current_outputs as it was unless a 'Process PDF'
\* handler generated at least one file, and then current_outputs is the list
\* of the paths generated by that run.
C30_OutputsKeptUnlessGenerated ==
    [][ /\ handler_run'.outcome = "stored" =>
               /\ handler_run'.outputs # <<>>
               /\ current_outputs' =
                      [none |-> FALSE, paths |-> handler_run'.outputs]
               /\ \A k \in 1..Len(handler_run'.outputs) :
                      handler_run'.outputs[k].id = unique_id'
        /\ handler_run'.outcome # "stored" =>
               current_outputs' = current_outputs ]_vars

\* a conversion in second 2 ended in an exception and the session still
\* holds the paths generated in second 1
C30_Witness ==
    /\ handler_run.outcome = "exception"
    /\ unique_id = 2
    /\ ~current_outputs.none
    /\ current_outputs.paths # <<>>
    /\ \A k \in 1..Len(current_outputs.paths) : current_outputs.paths[k].id = 1

====
